---- MODULE Spec2Model ----
(***************************************************************************)
(* Model of the Office add-in task pane (public/taskpane.js): the          *)
(* Socket.IO handlers that execute Word operations, the handle registry    *)
(* (state.ranges / state.tables), and the host document they act on.       *)
(*                                                                         *)
(* A handler is an async function.  It runs without interruption up to an  *)
(* `await context.sync()` (or `await fetch`), where other handlers and the *)
(* user may run.  Each action below is one such uninterrupted segment.     *)
(* Calls on Office.js proxies (insertText, delete, ...) are queued in the  *)
(* request's batch and take effect in the document when the batch is       *)
(* committed by context.sync().                                            *)
(***************************************************************************)
EXTENDS Integers, Sequences, FiniteSets, TLC

\* ------------------------------------------------------------------ bounds
MaxTime == 1        \* Date.now() takes the values 0..MaxTime
RandMax == 1        \* Math.random() suffixes are 0..RandMax-1
MaxLen == 3         \* longest document body, in characters
MaxInFlight == 2    \* handler invocations that may be suspended at once
MaxTables == 1      \* tables that may be live at once
MaxRows == 2        \* rows (and columns) a table may have
MaxClients == 2     \* Socket.IO clients that may be connected to the server
MaxCalls == 2       \* EditTask calls the acknowledging server takes in one run
EditTimeout == 1    \* the 30 s timer of an EditTask call, in steps of the clock
MaxFrames == 3      \* messages written to the server's stdin in one run

VARIABLES
  ranges,      \* state.ranges : handle -> live object
  tables,      \* state.tables : handle -> live object
  now,         \* Date.now()
  body,        \* text of the document body
  selection,   \* the user's current selection, a range [s, e) of body
  reqs,        \* handler invocations in flight: slot -> request
  result,      \* the 'word:result' message the last step emitted, if any
  hist,        \* history of the handler that emitted it (for the properties)
  issuedAt,    \* history: handle -> Date.now() when it was last registered
  fmt,         \* formatting of the text that word:applyStyle addresses
  wire         \* the MCP server: its clients and the events of the last tool call

vars == <<ranges, tables, now, body, selection, reqs, result, hist, issuedAt, fmt, wire>>

\* ------------------------------------------------------------------ values
Char == {"a", "b"}
Rand == 0 .. (RandMax - 1)
Slots == 1 .. MaxInFlight

Min(a, b) == IF a < b THEN a ELSE b
Max(a, b) == IF a > b THEN a ELSE b

\* A scope / handle string.  'rangeId:<t><r>' is [p |-> "rangeId", t, r];
\* the literals carry t = r = 0.  p = "none" is an absent argument and
\* p = "other" any other string.
Str(p) == [p |-> p, t |-> 0, r |-> 0]
NoScope == Str("none")
ScSelection == Str("selection")
ScDocument == Str("document")
ScSearchQuery == Str("searchQuery")
ScOther == Str("other")

\* genId = (p) => `${p}:${Date.now().toString(36)}${Math.random()...}`
\* t is the clock value read, r the random suffix drawn.
genIdNoClock(p, t, r) == [p |-> p, t |-> 0, r |-> r]
genId(p, t, r) == [p |-> p, t |-> t, r |-> r]

RangeIds == {genId("rangeId", t, r) : t \in 0 .. MaxTime, r \in Rand}
TableIds == {genId("tableId", t, r) : t \in 0 .. MaxTime, r \in Rand}

\* ------------------------------------------------------------------ text
\* body[s, e) replaced by x  (positions are 0-based, e exclusive)
Splice(txt, s, e, x) == SubSeq(txt, 1, s) \o x \o SubSeq(txt, e + 1, Len(txt))

\* Does q occur in txt at 0-based position i ?
MatchAt(txt, q, i) ==
  /\ Len(q) > 0
  /\ i + Len(q) <= Len(txt)
  /\ SubSeq(txt, i + 1, i + Len(q)) = q

\* Word's search: the non-overlapping occurrences of q in txt[s, e),
\* leftmost first, as a sequence of start positions.
RECURSIVE Scan(_, _, _, _)
Scan(txt, q, i, e) ==
  IF Len(q) = 0 \/ i + Len(q) > e THEN <<>>
  ELSE IF MatchAt(txt, q, i) THEN <<i>> \o Scan(txt, q, i + Len(q), e)
  ELSE Scan(txt, q, i + 1, e)

\* Word.SearchOptions as the handlers pass them.  With matchWildcards the
\* query is a Word wildcard pattern, in which '?' stands for any one
\* character; matchPrefix / matchSuffix hold a hit to the start / the end of
\* a word (a run of letters).
WildAt(txt, q, i) ==
  /\ Len(q) > 0
  /\ i + Len(q) <= Len(txt)
  /\ \A k \in 1 .. Len(q) : q[k] = "?" \/ q[k] = txt[i + k]
WordStart(txt, i) == i = 0 \/ txt[i] \notin Char
WordEnd(txt, j) == j = Len(txt) \/ txt[j + 1] \notin Char
FindAt(txt, q, i, opts) ==
  /\ IF opts.matchWildcards THEN WildAt(txt, q, i) ELSE MatchAt(txt, q, i)
  /\ opts.matchPrefix => WordStart(txt, i)
  /\ opts.matchSuffix => WordEnd(txt, i + Len(q))

\* range.search(q, opts): the hits in txt[i, e), leftmost first
RECURSIVE Find(_, _, _, _, _)
Find(txt, q, i, e, opts) ==
  IF Len(q) = 0 \/ i + Len(q) > e THEN <<>>
  ELSE IF FindAt(txt, q, i, opts) THEN <<i>> \o Find(txt, q, i + Len(q), e, opts)
  ELSE Find(txt, q, i + 1, e, opts)

\* ------------------------------------------------------------------ live objects
\* A live object is [k, s, e, g]: a range [s, e) of body, the body itself,
\* or table number s with grid g.
Range(s, e) == [k |-> "range", s |-> s, e |-> e, g |-> <<>>]
BodyObj == [k |-> "body", s |-> 0, e |-> 0, g |-> <<>>]
TableObj(id, g) == [k |-> "table", s |-> id, e |-> 0, g |-> g]
NoObj == [k |-> "none", s |-> 0, e |-> 0, g |-> <<>>]

\* the extent [s, e) an object covers in a body of the given text
Extent(o, txt) == IF o.k = "body" THEN [s |-> 0, e |-> Len(txt)]
                  ELSE IF o.k = "range" THEN [s |-> o.s, e |-> o.e]
                  ELSE [s |-> 0, e |-> 0]

\* A tracked range follows the text: after body[es, ee) is replaced by n
\* characters, positions behind the edit shift and positions inside it
\* collapse onto its start.
AdjPos(p, es, ee, n) == IF p >= ee /\ ~(p = es) THEN p + n - (ee - es)
                        ELSE IF p <= es THEN p ELSE es
Adjust(o, es, ee, n) ==
  LET s2 == AdjPos(o.s, es, ee, n)
      e2 == AdjPos(o.e, es, ee, n)
  IN Range(s2, Max(s2, e2))

\* What one executed call did: replaced body[es, ee) by n
\* characters on behalf of range o (which then covers [ns, ne)), or gave
\* table number id the grid g.
TextEdit(o, es, ee, n, ns, ne) ==
  [k |-> "text", o |-> o, es |-> es, ee |-> ee, n |-> n, ns |-> ns, ne |-> ne,
   id |-> 0, g |-> <<>>]
TableEdit(id, g) ==
  [k |-> "table", o |-> NoObj, es |-> 0, ee |-> 0, n |-> 0, ns |-> 0, ne |-> 0,
   id |-> id, g |-> g]

\* a live object after an edit
Move(ob, ed) ==
  IF ed.k = "text" /\ ob.k = "range"
  THEN (IF ob = ed.o THEN Range(ed.ns, ed.ne) ELSE Adjust(ob, ed.es, ed.ee, ed.n))
  ELSE IF ed.k = "table" /\ ob.k = "table" /\ ob.s = ed.id THEN TableObj(ed.id, ed.g)
  ELSE ob

\* F applied to the value of v, which is computed once
Bind(v, F(_)) == CHOOSE y \in {F(x) : x \in {v}} : TRUE

Image(f) == {f[x] : x \in DOMAIN f}
SeqImage(sq) == {sq[i] : i \in 1 .. Len(sq)}

\* ------------------------------------------------------------------ formatting
\* The style of the text and its font size.  A size is named after what set
\* it: the style that defines it, or the value of a direct font override.
\* The last writer of a property wins.
Format(style, size) == [style |-> style, size |-> size]
BaseFormat == Format("Normal", "Normal")
\* range.style = name
SetStyle(f, name) == Format(name, name)
\* range.font.size = v
SetSize(f, v) == Format(f.style, v)

\* ------------------------------------------------------------------ requests
\* The argument object of an event; absent fields hold their "none" value.
DefArgs == [scope |-> NoScope, target |-> NoScope, tableRef |-> NoScope,
            text |-> <<>>, query |-> <<>>, replaceWith |-> <<>>,
            mode |-> "none", location |-> "none", newParagraph |-> FALSE,
            source |-> "base64", width |-> FALSE, header |-> FALSE,
            rows |-> 0, cols |-> 0, data |-> FALSE,
            indexes |-> <<>>, at |-> 0, count |-> 0, row |-> 0, col |-> 0,
            startRow |-> 0, startCol |-> 0,
            rowSpan |-> 0, colSpan |-> 0, cell |-> 0, style |-> "none",
            precedence |-> "none", namedStyle |-> FALSE, para |-> FALSE,
            list |-> "none", char |-> FALSE, reset |-> FALSE,
            matchPrefix |-> FALSE, matchSuffix |-> FALSE, useRegex |-> FALSE,
            maxResults |-> 0, fontSize |-> "none", smallCaps |-> FALSE,
            wrapType |-> "none"]

\* a queued proxy call: c on object o with text x, location l, numbers i, j
Cmd(c, o, x, l, i, j) == [c |-> c, o |-> o, x |-> x, l |-> l, i |-> i, j |-> j]

\* A handler invocation: the event (op, a), where it is suspended (pc), its
\* target object, the search results it holds, the batch queued and not yet
\* committed (pend), the replaced counter (n), and whether an exception was
\* swallowed by one of its inner try/catch blocks (raised).  commits counts
\* the batches of it that the host has executed; was is the formatting the
\* handler found when it started, minted the handles it has registered.
Idle == [op |-> "idle", a |-> DefArgs, pc |-> "idle", tgt |-> NoObj, hits |-> <<>>,
         pend |-> <<>>, n |-> 0, raised |-> FALSE, commits |-> 0, was |-> BaseFormat,
         minted |-> {}]
NewReq(op, a, pc, tgt, pend) ==
  [op |-> op, a |-> a, pc |-> pc, tgt |-> tgt, hits |-> <<>>,
   pend |-> pend, n |-> 0, raised |-> FALSE, commits |-> 0, was |-> fmt, minted |-> {}]

MoveReq(rq, ed) ==
  [rq EXCEPT !.tgt = Move(rq.tgt, ed),
             !.hits = [k \in 1 .. Len(rq.hits) |-> Move(rq.hits[k], ed)],
             !.pend = [k \in 1 .. Len(rq.pend) |->
                         [rq.pend[k] EXCEPT !.o = Move(rq.pend[k].o, ed)]]]

\* the lowest free slot takes the next event
FreeSlot(i) == reqs[i] = Idle /\ \A j \in 1 .. (i - 1) : reqs[j] # Idle

\* ------------------------------------------------------------------ results
NoResult == [ok |-> FALSE, op |-> "none", code |-> "none", handles |-> <<>>,
             n |-> 0, diag |-> FALSE]

\* respond(op, data): socket.emit('word:result', { ok: true, op, data })
\* data is the handles returned (rangeId / tableId / results) and a number
\* (length / replaced / deleted).
respond(op, handles, n) ==
  [ok |-> TRUE, op |-> op, code |-> "none", handles |-> handles, n |-> n, diag |-> FALSE]

\* respondErr(op, err, code = 'E_RUNTIME')
DefaultCode == "E_RUNTIME"
respondErr(op, code) ==
  [ok |-> FALSE, op |-> op, code |-> code, handles |-> <<>>, n |-> 0, diag |-> TRUE]

\* toInsertLocation: unknown and absent locations mean replace
toInsertLocation(loc) ==
  IF loc \in {"start", "end", "before", "after"} THEN loc ELSE "replace"

\* ------------------------------------------------------------------ registry
\* getTarget(context, scope): the live object a scope names, or NoObj when
\* it throws 'range not found'.
getTargetCached(scope) ==
  IF scope.p \in {"none", "selection"}
  THEN (IF DOMAIN ranges = {} THEN selection ELSE ranges[CHOOSE h \in DOMAIN ranges : TRUE])
  ELSE IF scope.p = "document" THEN BodyObj
  ELSE IF scope.p = "rangeId" THEN (IF scope \in DOMAIN ranges THEN ranges[scope] ELSE NoObj)
  ELSE selection
getTarget(scope) ==
  IF scope.p \in {"none", "selection"} THEN selection
  ELSE IF scope.p = "document" THEN BodyObj
  ELSE IF scope.p = "rangeId" THEN (IF scope \in DOMAIN ranges THEN ranges[scope] ELSE NoObj)
  ELSE selection

\* resolveTableRef(ref): the registered object, or NoObj for null
resolveTableRef(ref) ==
  IF ref.p = "none" THEN NoObj
  ELSE IF ref.p = "tableId" THEN (IF ref \in DOMAIN tables THEN tables[ref] ELSE NoObj)
  ELSE IF ref.p = "rangeId" THEN (IF ref \in DOMAIN ranges THEN ranges[ref] ELSE NoObj)
  ELSE NoObj

\* Map.set(id, obj)
MapSetAlone(m, id, v) == [x \in {id} |-> v]
MapSet(m, id, v) == [x \in DOMAIN m \cup {id} |-> IF x = id THEN v ELSE m[x]]
EmptyMap == [x \in {} |-> NoObj]

\* ------------------------------------------------------------------ host document
\* The document and everything that tracks it while a batch executes: text,
\* selection, the registered objects, the objects held by the handlers, and
\* whether every call so far succeeded.
Doc(b, s, rg, tb, rq, ok, f) ==
  [body |-> b, sel |-> s, rg |-> rg, tb |-> tb, rq |-> rq, ok |-> ok, fmt |-> f]
Current == Doc(body, selection, ranges, tables, reqs, TRUE, fmt)
Failed(D) == [D EXCEPT !.ok = FALSE]

Edited(D, txt, ed) ==
  Bind(ed, LAMBDA e :
    Doc(txt, Move(D.sel, e),
        [h \in DOMAIN D.rg |-> Move(D.rg[h], e)],
        [h \in DOMAIN D.tb |-> Move(D.tb[h], e)],
        [i \in DOMAIN D.rq |-> MoveReq(D.rq[i], e)], TRUE, D.fmt))

\* range.insertText(x, l) / body.insertText(x, l)
HostInsertText(D, o, x, l) ==
  LET ext == Extent(o, D.body)
      n == Len(x)
      Put(es, ee, ns, ne) ==
        Edited(D, Splice(D.body, es, ee, x), TextEdit(o, es, ee, n, ns, ne))
  IN IF o.k \notin {"range", "body"} THEN Failed(D)
     ELSE IF l = "replace" THEN Put(ext.s, ext.e, ext.s, ext.s + n)
     ELSE IF l = "start" THEN Put(ext.s, ext.s, ext.s, ext.e + n)
     ELSE IF l = "end" THEN Put(ext.e, ext.e, ext.s, ext.e + n)
     ELSE IF o.k = "body" THEN Failed(D)
     ELSE IF l = "before" THEN Put(ext.s, ext.s, ext.s + n, ext.e + n)
     ELSE Put(ext.e, ext.e, ext.s, ext.e)

\* A table is a sequence of rows, a row a sequence of cells, a cell a number
\* (0 = empty).  insertTable(rows, cols, location, data): with data the cell
\* at (i, j) holds 10 * i + j, 1-based.
NewTable(rows, cols, data) ==
  [i \in 1 .. rows |-> [j \in 1 .. cols |-> IF data THEN 10 * i + j ELSE 0]]
NumRows(g) == Len(g)
NumCols(g) == IF Len(g) = 0 THEN 0 ELSE Len(g[1])
DropAfter(sq, k) == SubSeq(sq, 1, k) \o SubSeq(sq, k + 2, Len(sq))
DropAt(sq, k) == SubSeq(sq, 1, k - 1) \o SubSeq(sq, k + 1, Len(sq))
Blank(n) == [j \in 1 .. n |-> 0]
InsertAfter(sq, k, xs) == SubSeq(sq, 1, k) \o xs \o SubSeq(sq, k + 1, Len(sq))

SetGrid(D, o, g) == Edited(D, D.body, TableEdit(o.s, g))

\* cell(r1, c1).merge(cell(r2, c2)), 0-based: the cells of the rectangle other
\* than its first are absorbed by the first
Absorbed == -1
Merged(g, r1, c1, r2, c2) ==
  [r \in 1 .. Len(g) |->
     [c \in 1 .. Len(g[r]) |->
        IF (r - 1) \in r1 .. r2 /\ (c - 1) \in c1 .. c2 /\ <<r - 1, c - 1>> # <<r1, c1>>
        THEN Absorbed ELSE g[r][c]]]

\* one queued call, executed by the host against the document
HostStep(D, c) ==
  LET g == c.o.g
      isTable == c.o.k = "table"
  IN
  IF c.c = "insertText" THEN HostInsertText(D, c.o, c.x, c.l)
  ELSE IF c.c = "insertParagraph" THEN HostInsertText(D, c.o, c.x \o <<"p">>, c.l)
  \* body.clear()
  ELSE IF c.c = "clear" THEN HostInsertText(D, c.o, <<>>, "replace")
  ELSE IF c.c = "insertTable" THEN SetGrid(D, c.o, NewTable(c.i, c.j, c.x))
  ELSE IF c.c = "deleteRow" THEN
    \* table.rows.getItemAt(i).delete()
    IF isTable /\ c.i < NumRows(g) THEN SetGrid(D, c.o, DropAt(g, c.i + 1)) ELSE Failed(D)
  ELSE IF c.c = "deleteColumn" THEN
    IF isTable /\ c.i < NumCols(g)
    THEN SetGrid(D, c.o, [r \in 1 .. Len(g) |-> DropAt(g[r], c.i + 1)]) ELSE Failed(D)
  ELSE IF c.c = "insertRows" THEN
    \* table.rows.getItemAt(at).insertRows(after, count)
    IF isTable /\ c.i < NumRows(g)
    THEN SetGrid(D, c.o, InsertAfter(g, c.i + 1, [k \in 1 .. c.j |-> Blank(NumCols(g))]))
    ELSE Failed(D)
  ELSE IF c.c = "insertColumns" THEN
    IF isTable /\ c.i < NumCols(g)
    THEN SetGrid(D, c.o, [r \in 1 .. Len(g) |-> InsertAfter(g[r], c.i + 1, Blank(c.j))])
    ELSE Failed(D)
  ELSE IF c.c = "setCell" THEN
    \* table.getCell(row, col).insertText(text, replace)
    IF isTable /\ c.i < NumRows(g) /\ c.j < NumCols(g)
    THEN SetGrid(D, c.o, [g EXCEPT ![c.i + 1][c.j + 1] = c.x]) ELSE Failed(D)
  ELSE IF c.c = "merge" THEN
    \* cell(i, j).merge(cell(x[1], x[2])): both cells must exist
    IF isTable /\ c.i < NumRows(g) /\ c.j < NumCols(g)
       /\ c.x[1] >= 0 /\ c.x[1] < NumRows(g) /\ c.x[2] >= 0 /\ c.x[2] < NumCols(g)
    THEN SetGrid(D, c.o, Merged(g, c.i, c.j, c.x[1], c.x[2])) ELSE Failed(D)
  ELSE IF c.c = "style" THEN [D EXCEPT !.fmt = SetStyle(@, c.l)]
  ELSE IF c.c = "fontSize" THEN [D EXCEPT !.fmt = SetSize(@, c.l)]
  \* font.smallCaps: a property this host does not have
  ELSE IF c.c = "smallCaps" THEN Failed(D)
  ELSE D   \* other formatting and picture properties

\* context.sync() of the handler in slot i: the host executes its batch in
\* order and stops at the first call that fails; what ran before it stays.
RECURSIVE HostRun(_, _)
HostRun(D, i) ==
  IF D.rq[i].pend = <<>> \/ ~D.ok THEN D
  ELSE Bind(HostStep(D, Head(D.rq[i].pend)),
            LAMBDA D2 : HostRun([D2 EXCEPT !.rq[i].pend = Tail(@)], i))
Commit(i) ==
  Bind(HostRun(Current, i),
       LAMBDA D : IF D.ok THEN [D EXCEPT !.rq[i].commits = @ + 1] ELSE D)

\* the document stays within the bounds of the model
Fits(D) ==
  /\ Len(D.body) <= MaxLen
  /\ \A h \in DOMAIN D.tb : NumRows(D.tb[h].g) <= MaxRows /\ NumCols(D.tb[h].g) <= MaxRows

\* ------------------------------------------------------------------ handler steps
\* About the handler that emitted the result: the handles it registered, the
\* request as it stood when it emitted (req), the calls it had queued but not
\* committed by then, whether one of its inner try/catch blocks swallowed an
\* exception, whether the handle it was addressed by failed to resolve,
\* whether the exception it reports came from the host or the network, and
\* which of the handles it registered had been issued before, and whether
\* the host failed one call of its batch after executing the calls before it.
NoHist == [minted |-> {}, req |-> Idle, uncommitted |-> 0, raised |-> FALSE,
           unresolved |-> FALSE, host |-> FALSE, reissued |-> {}, partial |-> FALSE]
Ended(rq, minted) ==
  [minted |-> minted, req |-> rq, uncommitted |-> Len(rq.pend), raised |-> rq.raised,
   unresolved |-> FALSE, host |-> FALSE, reissued |-> minted \cap DOMAIN issuedAt,
   partial |-> FALSE]
Issued(minted) ==
  [h \in DOMAIN issuedAt \cup minted |-> IF h \in minted THEN now ELSE issuedAt[h]]

\* the handler in slot i suspends at an await as request rq
Suspend(i, rq, D) ==
  /\ reqs' = [D.rq EXCEPT ![i] = rq]
  /\ body' = D.body
  /\ selection' = D.sel
  /\ ranges' = D.rg
  /\ tables' = D.tb
  /\ result' = NoResult
  /\ hist' = NoHist
  /\ fmt' = D.fmt
  /\ UNCHANGED <<now, issuedAt, wire>>

\* The handler in slot i emits msg and returns.  Word.run ends with a sync of
\* its own for the calls the callback left queued: after respond, a handler
\* that left some stays in flight (final) until that sync settles.
Complete(i, msg, D, h) ==
  /\ result' = msg
  /\ reqs' = [D.rq EXCEPT ![i] = IF msg.ok /\ h.req.pend # <<>>
                                  THEN [h.req EXCEPT !.pc = "final", !.minted = h.minted]
                                  ELSE Idle]
  /\ body' = D.body
  /\ selection' = D.sel
  /\ ranges' = D.rg
  /\ tables' = D.tb
  /\ hist' = h
  /\ issuedAt' = Issued(h.minted)
  /\ fmt' = D.fmt
  /\ UNCHANGED <<now, wire>>

\* catch (e) { respondErr(op, e) } of the handler in slot i
Catch(i, D, host) ==
  Complete(i, respondErr(reqs[i].op, DefaultCode), D,
           [Ended(reqs[i], {}) EXCEPT !.host = host])

\* the handler throws before its first await; unresolved: the exception is
\* 'range not found' / 'tableRef not found'
Throw(op, unresolved) ==
  /\ result' = respondErr(op, DefaultCode)
  /\ hist' = [Ended(Idle, {}) EXCEPT !.unresolved = unresolved]
  /\ UNCHANGED <<ranges, tables, now, body, selection, reqs, issuedAt, fmt, wire>>

\* `args.scope || dflt`
ScopeOr(scope, dflt) == IF scope.p = "none" THEN dflt ELSE scope
\* `Number(args.x || dflt)`
NumOr(x, dflt) == IF x = 0 THEN dflt ELSE x

\* A handler whose first await is context.sync(): it throws before it, or
\* suspends with target t and its batch queued.
Begin(op, a, pc, t, pend, n, raised) ==
  \E i \in Slots :
    /\ FreeSlot(i)
    /\ Suspend(i, [NewReq(op, a, pc, t, pend) EXCEPT !.n = n, !.raised = raised], Current)

\* await context.sync() of the handler in slot i throws: the host rejected
\* the batch (nothing of it ran), or one of the calls in it failed
SyncRejected(i) ==
  /\ reqs[i].pc \notin {"idle", "fetch"}
  /\ Catch(i, Current, TRUE)

SyncFailed(i) ==
  /\ reqs[i].pc \notin {"idle", "fetch"}
  /\ \E D \in {Commit(i)} :
       /\ ~D.ok
       /\ Fits(D)
       /\ Complete(i, respondErr(reqs[i].op, DefaultCode), [D EXCEPT !.ok = TRUE],
                   [Ended(reqs[i], {}) EXCEPT !.host = TRUE, !.partial = TRUE])

\* the sync Word.run ends with commits what the callback left queued
RunEnd(i) ==
  /\ reqs[i].pc = "final"
  /\ \E D \in {Commit(i)} : D.ok /\ Fits(D) /\ Suspend(i, Idle, D)

\* the last context.sync() of a handler that registers nothing, then respond
SyncRespond(i, op) ==
  /\ reqs[i].op = op /\ reqs[i].pc = "sync"
  /\ \E D \in {Commit(i)} :
       /\ D.ok /\ Fits(D)
       /\ Complete(i, respond(op, <<>>, reqs[i].n), D, Ended(D.rq[i], {}))

\* ---- word:getSelection
ReceiveGetSelection ==
  Begin("getSelection", DefArgs, "sync", selection, <<>>, 0, FALSE)

SyncGetSelection(i) ==
  /\ reqs[i].op = "getSelection" /\ reqs[i].pc = "sync"
  /\ \E r \in Rand, D \in {Commit(i)} :
       LET id == genId("rangeId", now, r)
       IN Complete(i, respond("getSelection", <<id>>, 0),
                   [D EXCEPT !.rg = MapSet(ranges, id, reqs[i].tgt)],
                   Ended(D.rq[i], {id}))

\* ---- word:insertText
ReceiveInsertText(a) ==
  LET scope == ScopeOr(a.scope, ScSelection)
      location == toInsertLocation(a.location)
      t == getTarget(scope)
      call == IF a.newParagraph THEN "insertParagraph" ELSE "insertText"
  IN IF t = NoObj THEN Throw("insertText", TRUE)
     ELSE Begin("insertText", a, "sync", t, <<Cmd(call, t, a.text, location, 0, 0)>>,
                0, FALSE)

\* id = scope.startsWith('rangeId:') ? scope : genId('rangeId')
InsertedIdMinted(scope, r) == genId("rangeId", now, r)
InsertedId(scope, r) == IF scope.p = "rangeId" THEN scope ELSE genId("rangeId", now, r)

SyncInsertText(i) ==
  /\ reqs[i].op = "insertText" /\ reqs[i].pc = "sync"
  /\ \E r \in Rand, D \in {Commit(i)} :
       LET scope == ScopeOr(reqs[i].a.scope, ScSelection)
           id == InsertedId(scope, r)
           fresh == id \notin DOMAIN D.rg
       IN D.ok /\ Fits(D) /\ Complete(i, respond("insertText", <<id>>, Len(reqs[i].a.text)),
                   IF fresh THEN [D EXCEPT !.rg = MapSet(D.rg, id, D.rq[i].tgt)] ELSE D,
                   Ended(D.rq[i], IF fresh THEN {id} ELSE {}))

\* ---- word:search
\* the ranges base.search(query) finds when the batch runs
SearchOptions(a) ==
  [matchPrefix |-> a.matchPrefix, matchSuffix |-> a.matchSuffix,
   matchWildcards |-> a.useRegex]
\* the options word:replace passes to base.search
ReplaceOptions(a) ==
  [matchPrefix |-> a.matchPrefix, matchSuffix |-> FALSE, matchWildcards |-> FALSE]
HitsOrScope(D, base, q, opts) ==
  LET ext == Extent(base, D.body)
      found == Find(D.body, q, ext.s, ext.e, opts)
  IN IF found = <<>> THEN <<Range(ext.s, ext.e)>>
     ELSE [k \in 1 .. Len(found) |-> Range(found[k], found[k] + Len(q))]
Hits(D, base, q, opts) ==
  LET ext == Extent(base, D.body)
      found == Find(D.body, q, ext.s, ext.e, opts)
  IN [k \in 1 .. Len(found) |-> Range(found[k], found[k] + Len(q))]

\* state.ranges.set(id, r) for each result, in order
RECURSIVE SetAll(_, _, _)
SetAll(m, ids, obs) ==
  IF ids = <<>> THEN m
  ELSE SetAll(MapSet(m, Head(ids), Head(obs)), Tail(ids), Tail(obs))

ReceiveSearch(a) ==
  LET base == getTarget(ScopeOr(a.scope, ScDocument))
  IN IF base = NoObj THEN Throw("search", TRUE)
     ELSE Begin("search", a, "sync", base, <<>>, 0, FALSE)

SyncSearch(i) ==
  /\ reqs[i].op = "search" /\ reqs[i].pc = "sync"
  /\ LET items == Hits(Current, reqs[i].tgt, reqs[i].a.query, SearchOptions(reqs[i].a))
     IN \E rf \in [1 .. Len(items) -> Rand], D \in {Commit(i)} :
          LET ids == [k \in 1 .. Len(items) |-> genId("rangeId", now, rf[k])]
          IN Complete(i, respond("search", ids, 0),
                      [D EXCEPT !.rg = SetAll(ranges, ids, items)],
                      Ended([D.rq[i] EXCEPT !.hits = items], SeqImage(ids)))

\* ---- word:replace
\* replaceOne = (r, text) => r.insertText(text, Word.InsertLocation.replace)
replaceOneAtEnd(r, text) == Cmd("insertText", r, text, "end", 0, 0)
replaceOne(r, text) == Cmd("insertText", r, text, "replace", 0, 0)

ReceiveReplace(a) ==
  IF a.target = ScSearchQuery
  THEN LET base == getTarget(ScopeOr(a.scope, ScDocument))
       IN IF base = NoObj THEN Throw("replace", TRUE)
          ELSE Begin("replace", a, "search", base, <<>>, 0, FALSE)
  ELSE LET target == getTarget(a.target)
       IN IF target = NoObj THEN Throw("replace", TRUE)
          ELSE Begin("replace", a, "sync", target, <<replaceOne(target, a.replaceWith)>>,
                     1, FALSE)

\* after the first sync: `results.items`, read without results.load(), then
\* replaceOne on the first `count` items
SyncReplaceSearch(i) ==
  /\ reqs[i].op = "replace" /\ reqs[i].pc = "search"
  /\ LET items == Hits(Current, reqs[i].tgt, reqs[i].a.query, ReplaceOptions(reqs[i].a))
         count == IF reqs[i].a.mode = "replaceFirst" THEN Min(1, Len(items)) ELSE Len(items)
     IN Suspend(i, [reqs[i] EXCEPT
                      !.pc = "sync", !.hits = items, !.n = count,
                      !.commits = 1,
                      !.pend = [k \in 1 .. count |->
                                  replaceOne(items[k], reqs[i].a.replaceWith)]],
                Current)

\* the host library refuses to read `items` of a collection never loaded
ReplaceItemsNotLoaded(i) ==
  /\ reqs[i].op = "replace" /\ reqs[i].pc = "search"
  /\ Catch(i, Current, FALSE)

SyncReplace(i) == SyncRespond(i, "replace")

\* the final sync throws: the host executed the first j replacements and
\* failed the next one (a hit it does not allow to be edited); the handler's
\* catch answers for the whole call
SyncReplaceFailed(i) ==
  /\ reqs[i].op = "replace" /\ reqs[i].pc = "sync"
  /\ reqs[i].a.target = ScSearchQuery
  /\ \E j \in 0 .. (Len(reqs[i].pend) - 1) :
       \E D \in {HostRun([Current EXCEPT !.rq[i].pend = SubSeq(reqs[i].pend, 1, j)], i)} :
         /\ D.ok /\ Fits(D)
         /\ Complete(i, respondErr("replace", DefaultCode), D,
                     [Ended([D.rq[i] EXCEPT
                               !.pend = SubSeq(reqs[i].pend, j + 1, Len(reqs[i].pend))], {})
                        EXCEPT !.host = TRUE, !.partial = TRUE])

\* ---- word:insertPicture
\* from getTarget on: the picture is queued on the target
PictureQueued(a) ==
  LET t == getTarget(ScopeOr(a.scope, ScSelection))
  IN NewReq("insertPicture", a, "sync1", t,
            <<Cmd("insertPicture", t, <<>>, toInsertLocation(a.location), 0, 0)>>)

ReceiveInsertPicture(a) ==
  IF a.source = "url"
  THEN Begin("insertPicture", a, "fetch", NoObj, <<>>, 0, FALSE)
  ELSE IF PictureQueued(a).tgt = NoObj THEN Throw("insertPicture", TRUE)
  ELSE \E i \in Slots : FreeSlot(i) /\ Suspend(i, PictureQueued(a), Current)

\* await fetchAsBase64(url) returns
FetchDone(i) ==
  /\ reqs[i].pc = "fetch"
  /\ IF PictureQueued(reqs[i].a).tgt = NoObj
     THEN Complete(i, respondErr("insertPicture", DefaultCode), Current,
                   [Ended(Idle, {}) EXCEPT !.unresolved = TRUE])
     ELSE Suspend(i, PictureQueued(reqs[i].a), Current)

\* e?.message?.includes('fetch') ? 'E_RUNTIME' : 'E_RUNTIME'
PictureCodeOther(aboutFetch) == IF aboutFetch THEN "E_RUNTIME" ELSE "E_INVALID_ARG"
PictureCode(aboutFetch) == IF aboutFetch THEN "E_RUNTIME" ELSE "E_RUNTIME"

\* fetch rejects, or res.ok is false and fetchAsBase64 throws 'fetch failed:
\* <status>'; the message of a rejected fetch is the browser's
FetchFailed(i) ==
  /\ reqs[i].pc = "fetch"
  /\ \E aboutFetch \in BOOLEAN :
       Complete(i, respondErr("insertPicture", PictureCode(aboutFetch)), Current,
                [Ended(reqs[i], {}) EXCEPT !.host = TRUE])

SyncPicture1(i) ==
  /\ reqs[i].op = "insertPicture" /\ reqs[i].pc = "sync1"
  /\ \E D \in {Commit(i)} :
       /\ D.ok /\ Fits(D)
       /\ Suspend(i, [D.rq[i] EXCEPT
                      !.pc = "sync2",
                      !.pend = IF reqs[i].a.width
                               THEN <<Cmd("pictureSize", D.rq[i].tgt, <<>>, "", 0, 0)>>
                               ELSE <<>>], D)

SyncPicture2(i) ==
  /\ reqs[i].op = "insertPicture" /\ reqs[i].pc = "sync2"
  /\ \E r \in Rand, D \in {Commit(i)} :
       /\ D.ok /\ Fits(D)
       /\ Complete(i, respond("insertPicture", <<genId("rangeId", now, r)>>, 0),
                   D, Ended(D.rq[i], {}))

\* ---- tables
LiveTables == {ob.s : ob \in {x \in Image(tables) \cup {reqs[i].tgt : i \in Slots} :
                                x.k = "table"}}

ReceiveTableCreate(a) ==
  LET base == getTarget(ScopeOr(a.scope, ScSelection))
      location == toInsertLocation(IF a.location = "none" THEN "end" ELSE a.location)
      tbl == TableObj(CHOOSE n \in 1 .. MaxTables : n \notin LiveTables, <<>>)
  IN IF base = NoObj THEN Throw("table.create", TRUE)
     ELSE /\ Cardinality(LiveTables) < MaxTables
          /\ Begin("table.create", a, "sync", tbl,
                   <<Cmd("insertTable", tbl, a.data, location,
                         NumOr(a.rows, 1), NumOr(a.cols, 1))>>, 0, FALSE)

\* after the sync: headerRow is set, the table registered, the result sent
SyncTableCreate(i) ==
  /\ reqs[i].op = "table.create" /\ reqs[i].pc = "sync"
  /\ \E r \in Rand, D \in {Commit(i)} :
       LET tbl == D.rq[i].tgt
           id == genId("tableId", now, r)
           after == [D.rq[i] EXCEPT
                       !.pend = IF reqs[i].a.header
                                THEN <<Cmd("headerRow", tbl, <<>>, "", 0, 0)>> ELSE <<>>]
       IN D.ok /\ Fits(D) /\ Complete(i, respond("table.create", <<id>>, 0),
                   [D EXCEPT !.tb = MapSet(D.tb, id, tbl)], Ended(after, {id}))

\* Array.prototype.sort((a, b) => b - a)
RECURSIVE SortDesc(_)
PutDesc(x, sq) ==
  LET k == Cardinality({j \in 1 .. Len(sq) : sq[j] >= x})
  IN SubSeq(sq, 1, k) \o <<x>> \o SubSeq(sq, k + 1, Len(sq))
Unsorted(sq) == sq
SortDesc(sq) == IF sq = <<>> THEN <<>> ELSE PutDesc(Head(sq), SortDesc(Tail(sq)))

\* A table handler up to its sync.  t is what resolveTableRef returned: null
\* throws 'tableRef not found'; a call of a table method on a range or the
\* body is a TypeError.
TableBegin(op, a, pend, n) ==
  LET t == resolveTableRef(a.tableRef)
  IN IF t = NoObj THEN Throw(op, TRUE)
     ELSE IF t.k # "table" THEN Throw(op, FALSE)
     ELSE Begin(op, a, "sync", t, pend, n, FALSE)

ReceiveSetCellText(a) ==
  TableBegin("table.setCellText", a,
             <<Cmd("setCell", resolveTableRef(a.tableRef), a.cell, "", a.row, a.col)>>, 0)
SyncSetCellText(i) == SyncRespond(i, "table.setCellText")

ReceiveInsertRows(a) ==
  TableBegin("table.insertRows", a,
             <<Cmd("insertRows", resolveTableRef(a.tableRef), 0, "", a.at, NumOr(a.count, 1))>>, 0)
SyncInsertRows(i) == SyncRespond(i, "table.insertRows")

ReceiveInsertColumns(a) ==
  TableBegin("table.insertColumns", a,
             <<Cmd("insertColumns", resolveTableRef(a.tableRef), 0, "", a.at,
                   NumOr(a.count, 1))>>, 0)
SyncInsertColumns(i) == SyncRespond(i, "table.insertColumns")

\* idx.forEach(i => { try { t.rows.getItemAt(i).delete(); } catch {} }): on a
\* range or the body t.rows is undefined, each call throws a TypeError and
\* the catch swallows it
DeleteCalls(call, t, indexes) ==
  LET idx == SortDesc(indexes)
  IN [k \in 1 .. Len(idx) |-> Cmd(call, t, 0, "", idx[k], 0)]
DeleteBegin(op, call, a) ==
  LET t == resolveTableRef(a.tableRef)
      n == Len(a.indexes)
  IN IF t = NoObj THEN Throw(op, TRUE)
     ELSE IF t.k # "table" THEN Begin(op, a, "sync", t, <<>>, n, n > 0)
     ELSE Begin(op, a, "sync", t, DeleteCalls(call, t, a.indexes), n, FALSE)

ReceiveDeleteRows(a) == DeleteBegin("table.deleteRows", "deleteRow", a)
SyncDeleteRows(i) == SyncRespond(i, "table.deleteRows")
ReceiveDeleteColumns(a) == DeleteBegin("table.deleteColumns", "deleteColumn", a)
SyncDeleteColumns(i) == SyncRespond(i, "table.deleteColumns")

\* r2 = t.getCell(startRow + rowSpan - 1, startCol + colSpan - 1)
MergeCornerPast(a) == <<a.startRow + a.rowSpan, a.startCol + a.colSpan>>
MergeCorner(a) == <<a.startRow + a.rowSpan - 1, a.startCol + a.colSpan - 1>>
ReceiveMergeCells(a) ==
  TableBegin("table.mergeCells", a,
             <<Cmd("merge", resolveTableRef(a.tableRef), MergeCorner(a), "",
                   a.startRow, a.startCol)>>, 0)
SyncMergeCells(i) == SyncRespond(i, "table.mergeCells")

\* t.style = s, or the banding flags: plain property writes, on any object
ReceiveTableApplyStyle(a) ==
  LET t == resolveTableRef(a.tableRef)
  IN IF t = NoObj THEN Throw("table.applyStyle", TRUE)
     ELSE Begin("table.applyStyle", a, "sync", t,
                IF a.style = "none" THEN <<>> ELSE <<Cmd("tableStyle", t, 0, a.style, 0, 0)>>,
                0, FALSE)
SyncTableApplyStyle(i) == SyncRespond(i, "table.applyStyle")

\* ---- word:applyStyle
\* the calls each step queues on the range r
NoResetCalls(a, r) == <<>>
ResetCalls(a, r) == IF a.reset THEN <<Cmd("style", r, 0, "Normal", 0, 0)>> ELSE <<>>
NamedCalls(a, r) == IF a.namedStyle THEN <<Cmd("style", r, 0, "named", 0, 0)>> ELSE <<>>
ParaCalls(a, r) == IF a.para THEN <<Cmd("paragraphFormat", r, 0, "", 0, 0)>> ELSE <<>>
\* applyChar: bold ... allCaps, then smallCaps, ..., then fontSize
CharCalls(a, r) ==
  IF a.char
  THEN <<Cmd("font", r, 0, "", 0, 0)>>
         \o (IF a.smallCaps THEN <<Cmd("smallCaps", r, 0, "", 0, 0)>> ELSE <<>>)
         \o (IF a.fontSize # "none" THEN <<Cmd("fontSize", r, 0, a.fontSize, 0, 0)>> ELSE <<>>)
  ELSE <<>>
\* applyPara awaits a sync of its own when p.list is set and not 'none'
WantsList(a) == a.para /\ a.list # "none"
\* the paragraphs a range touches: one more than the paragraph marks in it
Paragraphs(txt, r) ==
  LET ext == Extent(r, txt)
  IN 1 + Cardinality({k \in (ext.s + 1) .. ext.e : txt[k] = "p"})
ListCallsOnce(txt, r) == <<Cmd("startNewList", r, 0, "", 1, 0)>>
ListCalls(txt, r) == [k \in 1 .. Paragraphs(txt, r) |-> Cmd("startNewList", r, 0, "", k, 0)]
StyleAlwaysFirst(a) == TRUE
StyleFirst(a) == a.precedence \in {"none", "styleThenOverrides"}

ReceiveApplyStyle(a) ==
  LET r == getTarget(ScopeOr(a.scope, ScSelection))
  IN IF r = NoObj THEN Throw("applyStyle", TRUE)
     ELSE IF StyleFirst(a)
     THEN Begin("applyStyle", a, "named", r, ResetCalls(a, r) \o NamedCalls(a, r), 0, FALSE)
     ELSE IF WantsList(a)
     THEN Begin("applyStyle", a, "list", r, ResetCalls(a, r) \o ParaCalls(a, r), 0, FALSE)
     ELSE Begin("applyStyle", a, "overrides", r,
                ResetCalls(a, r) \o ParaCalls(a, r) \o CharCalls(a, r), 0, FALSE)

\* styleThenOverrides: the named style is committed, the overrides follow
SyncStyleNamed(i) ==
  /\ reqs[i].op = "applyStyle" /\ reqs[i].pc = "named"
  /\ \E D \in {Commit(i)} :
     LET a == reqs[i].a
         r == D.rq[i].tgt
     IN D.ok /\ Fits(D) /\
        IF WantsList(a)
        THEN Suspend(i, [D.rq[i] EXCEPT !.pc = "list", !.pend = ParaCalls(a, r)], D)
        ELSE Suspend(i, [D.rq[i] EXCEPT !.pc = "sync",
                                        !.pend = ParaCalls(a, r) \o CharCalls(a, r)], D)

\* applyPara's own sync: the paragraphs are loaded, each starts a new list,
\* then applyChar runs
SyncStyleList(i) ==
  /\ reqs[i].op = "applyStyle" /\ reqs[i].pc = "list"
  /\ \E D \in {Commit(i)} :
     LET a == reqs[i].a
         r == D.rq[i].tgt
     IN D.ok /\ Fits(D) /\
        Suspend(i, [D.rq[i] EXCEPT
                      !.pc = IF StyleFirst(a) THEN "sync" ELSE "overrides",
                      !.pend = ListCalls(D.body, r) \o CharCalls(a, r)], D)

\* overrides first: the overrides are committed, the named style follows
SyncStyleOverrides(i) ==
  /\ reqs[i].op = "applyStyle" /\ reqs[i].pc = "overrides"
  /\ \E D \in {Commit(i)} :
       /\ D.ok /\ Fits(D)
       /\ Suspend(i, [D.rq[i] EXCEPT !.pc = "sync",
                                     !.pend = NamedCalls(reqs[i].a, D.rq[i].tgt)], D)

SyncApplyStyle(i) ==
  /\ reqs[i].op = "applyStyle" /\ reqs[i].pc = "sync"
  /\ \E r \in Rand, D \in {Commit(i)} :
       /\ D.ok /\ Fits(D)
       /\ Complete(i, respond("applyStyle", <<genId("rangeId", now, r)>>, 0),
                   D, Ended(D.rq[i], {}))

\* ---- word:listStyles: no await; the built-in style names
NumStyles == 33
ReceiveListStyles ==
  /\ result' = respond("listStyles", <<>>, NumStyles)
  /\ hist' = Ended(Idle, {})
  /\ UNCHANGED <<ranges, tables, now, body, selection, reqs, issuedAt, fmt, wire>>

\* ---- an event no socket.on registration listens to: no handler runs and
\* nothing is emitted
UnknownOp == "word:other"
ReceiveUnknown ==
  /\ result' = NoResult
  /\ hist' = [NoHist EXCEPT !.req.op = UnknownOp]
  /\ UNCHANGED <<ranges, tables, now, body, selection, reqs, issuedAt, fmt, wire>>

\* ------------------------------------------------------------------ server
\* The MCP server: the mode it was started in, the Socket.IO clients
\* connected to it, and for the last tool call its tool name, its argument
\* object, the events the handler emitted and what each client received.
Clients == 1 .. MaxClients
NoTool == <<>>
NoCall(mode) ==
  [mode |-> mode, clients |-> {}, tool |-> NoTool, args |-> DefArgs, sent |-> <<>>,
   got |-> [c \in Clients |-> <<>>]]

\* String.prototype.replace(from, to) with a string pattern: the first
\* occurrence only.  A name is the sequence of its parts and separators.
RECURSIVE ReplaceFirst(_, _, _)
ReplaceFirst(sq, from, to) ==
  IF sq = <<>> THEN <<>>
  ELSE IF Head(sq) = from THEN <<to>> \o Tail(sq)
  ELSE <<Head(sq)>> \o ReplaceFirst(Tail(sq), from, to)

\* reg(name_in, schema, event, desc): the tool is registered under
\* name_in.replace('.', '_') and its handler emits `event`
reg(name_in, event) == [name |-> ReplaceFirst(name_in, ".", "_"), event |-> event]
Tools ==
  {reg(<<"insertText">>, <<"word", ":", "insertText">>),
   reg(<<"getSelection">>, <<"word", ":", "getSelection">>),
   reg(<<"search">>, <<"word", ":", "search">>),
   reg(<<"replace">>, <<"word", ":", "replace">>),
   reg(<<"insertPicture">>, <<"word", ":", "insertPicture">>),
   reg(<<"table", ".", "create">>, <<"word", ":", "table", ".", "create">>),
   reg(<<"table", ".", "insertRows">>, <<"word", ":", "table", ".", "insertRows">>),
   reg(<<"table", ".", "insertColumns">>, <<"word", ":", "table", ".", "insertColumns">>),
   reg(<<"table", ".", "deleteRows">>, <<"word", ":", "table", ".", "deleteRows">>),
   reg(<<"table", ".", "deleteColumns">>, <<"word", ":", "table", ".", "deleteColumns">>),
   reg(<<"table", ".", "setCellText">>, <<"word", ":", "table", ".", "setCellText">>),
   reg(<<"table", ".", "mergeCells">>, <<"word", ":", "table", ".", "mergeCells">>),
   reg(<<"applyStyle">>, <<"word", ":", "applyStyle">>),
   reg(<<"listStyles">>, <<"word", ":", "listStyles">>)}
PingTool == <<"ping">>
EditTaskTool == <<"editTask">>

\* emitTool(event, args): io.emit(event, args || {})
emitToolByName(event, args) == [event |-> SubSeq(event, 3, Len(event)), payload |-> args]
emitTool(event, args) == [event |-> event, payload |-> args]
\* the event tool_simple.js emits
AiCmdEvent == <<"ai-cmd">>
EditTaskEvent == <<"editTask">>

\* io.emit: every connected client receives the events
Called(tool, args, msgs) ==
  /\ wire' = [wire EXCEPT !.tool = tool, !.args = args, !.sent = msgs,
                          !.got = [c \in Clients |-> IF c \in wire.clients THEN msgs ELSE <<>>]]
  /\ UNCHANGED <<ranges, tables, now, body, selection, reqs, result, hist, issuedAt, fmt>>

\* tools/call of a tool registered by reg
CallTool(t, args) ==
  /\ wire.mode = "normal"
  /\ Called(t.name, args, <<emitTool(t.event, args)>>)

\* tools/call of ping, in either mode: it answers and emits nothing
PingArgs == {[message |-> m] : m \in {"", "hi"}}
CallPing(args) == Called(PingTool, args, <<>>)

\* tools/call of editTask (tool_simple.js)
CallEditTask(args) ==
  /\ wire.mode = "simple"
  /\ Called(EditTaskTool, args, <<emitTool(EditTaskEvent, args)>>)

\* a Socket.IO client connects or disconnects
Connect(c) ==
  /\ c \notin wire.clients
  /\ wire' = [NoCall(wire.mode) EXCEPT !.clients = wire.clients \cup {c}]
  /\ UNCHANGED <<ranges, tables, now, body, selection, reqs, result, hist, issuedAt, fmt>>
Disconnect(c) ==
  /\ c \in wire.clients
  /\ wire' = [NoCall(wire.mode) EXCEPT !.clients = wire.clients \ {c}]
  /\ UNCHANGED <<ranges, tables, now, body, selection, reqs, result, hist, issuedAt, fmt>>

\* ------------------------------------------------------------------ environment
\* time passes
Tick ==
  /\ now < MaxTime
  /\ now' = now + 1
  /\ result' = NoResult
  /\ hist' = NoHist
  /\ UNCHANGED <<ranges, tables, body, selection, reqs, issuedAt, fmt, wire>>

\* the user moves the selection
Ranges(txt) == {Range(se[1], se[2]) :
                 se \in {x \in (0 .. Len(txt)) \X (0 .. Len(txt)) : x[1] <= x[2]}}
UserSelect ==
  /\ \E r \in Ranges(body) : r # selection /\ selection' = r
  /\ result' = NoResult
  /\ hist' = NoHist
  /\ UNCHANGED <<ranges, tables, now, body, reqs, issuedAt, fmt, wire>>

\* ------------------------------------------------------------------ specifications
Init ==
  /\ ranges = EmptyMap
  /\ tables = EmptyMap
  /\ now = 0
  /\ body = <<"a">>
  /\ selection = Range(0, 0)
  /\ reqs = [i \in Slots |-> Idle]
  /\ result = NoResult
  /\ hist = NoHist
  /\ issuedAt = EmptyMap
  /\ fmt = BaseFormat
  /\ wire = NoCall("normal")

\* the caller sends the next event after the result of the previous one
Quiet == \A i \in Slots : reqs[i] = Idle

\* ---- Spec: the handle registry.  Every handler that takes a scope or
\* returns a handle, one event at a time, addressed by every kind of scope;
\* the events leave the text of the document as it is.
Scopes == {NoScope, ScSelection, ScDocument, ScOther} \cup RangeIds
TableRefs == TableIds \cup {genId("rangeId", 0, 0), NoScope}
InsertTextArgs ==
  {[DefArgs EXCEPT !.scope = sc, !.location = "end"] : sc \in Scopes}
    \cup {[DefArgs EXCEPT !.scope = ScDocument, !.location = "before"]}
SearchArgs ==
  {[DefArgs EXCEPT !.scope = sc, !.query = <<"a">>] : sc \in {NoScope, genId("rangeId", 0, 0)}}
PictureArgs ==
  {[DefArgs EXCEPT !.scope = sc, !.source = src, !.location = "end"] :
     sc \in {NoScope, genId("rangeId", 0, 0)}, src \in {"url", "base64"}}
    \cup {[DefArgs EXCEPT !.location = "end", !.wrapType = w] : w \in {"inline", "square"}}
StyleArgs ==
  {[DefArgs EXCEPT !.scope = sc, !.precedence = pr, !.namedStyle = TRUE, !.para = TRUE,
                   !.char = TRUE, !.list = l] :
     sc \in {NoScope, genId("rangeId", 0, 0)},
     pr \in {"none", "overridesThenStyle"}, l \in {"none", "bullet"}}
TableCreateArgs == {[DefArgs EXCEPT !.header = h] : h \in BOOLEAN}
TableArgs == {[DefArgs EXCEPT !.tableRef = ref] : ref \in TableRefs}

Next ==
  \/ Tick
  \/ UserSelect
  \/ Quiet /\ ReceiveGetSelection
  \/ \E i \in Slots : SyncGetSelection(i)
  \/ Quiet /\ \E a \in InsertTextArgs : ReceiveInsertText(a)
  \/ \E i \in Slots : SyncInsertText(i)
  \/ Quiet /\ \E a \in SearchArgs : ReceiveSearch(a)
  \/ \E i \in Slots : SyncSearch(i)
  \/ Quiet /\ \E a \in PictureArgs : ReceiveInsertPicture(a)
  \/ \E i \in Slots : FetchDone(i)
  \/ \E i \in Slots : FetchFailed(i)
  \/ \E i \in Slots : SyncPicture1(i)
  \/ \E i \in Slots : SyncPicture2(i)
  \/ Quiet /\ \E a \in StyleArgs : ReceiveApplyStyle(a)
  \/ \E i \in Slots : SyncStyleNamed(i)
  \/ \E i \in Slots : SyncStyleList(i)
  \/ \E i \in Slots : SyncStyleOverrides(i)
  \/ \E i \in Slots : SyncApplyStyle(i)
  \/ Quiet /\ \E a \in TableCreateArgs : ReceiveTableCreate(a)
  \/ \E i \in Slots : SyncTableCreate(i)
  \/ Quiet /\ \E a \in TableArgs : ReceiveSetCellText(a)
  \/ \E i \in Slots : SyncSetCellText(i)
  \/ Quiet /\ ReceiveListStyles
  \/ Quiet /\ ReceiveUnknown
  \/ \E i \in Slots : RunEnd(i)
  \/ \E i \in Slots : SyncRejected(i)
  \/ \E i \in Slots : SyncFailed(i)

Spec == Init /\ [][Next]_vars

\* ---- SpecTable: the table handlers, one event at a time, on a table of
\* MaxRows rows and columns whose cells all differ.
GridArgs == [DefArgs EXCEPT !.rows = MaxRows, !.cols = MaxRows, !.data = TRUE]
Indexes == {<<>>, <<0>>, <<1, 0>>, <<0, 1>>, <<1, 1>>, <<0, MaxRows>>}
CellArgs == {[DefArgs EXCEPT !.tableRef = ref, !.cell = 1] : ref \in TableRefs}
DeleteArgs ==
  {[DefArgs EXCEPT !.tableRef = ref, !.indexes = idx] : ref \in TableRefs, idx \in Indexes}
InsertArgs ==
  {[DefArgs EXCEPT !.tableRef = ref, !.at = at, !.count = n] :
     ref \in TableRefs, at \in {0, 1}, n \in {0, 1}}
MergeArgs ==
  {[DefArgs EXCEPT !.tableRef = ref, !.startRow = r, !.rowSpan = 1, !.colSpan = sp] :
     ref \in TableRefs, r \in {0, 1}, sp \in {1, 2, MaxRows + 1}}

NextTable ==
  \/ Quiet /\ ReceiveGetSelection
  \/ \E i \in Slots : SyncGetSelection(i)
  \/ Quiet /\ ReceiveTableCreate(GridArgs)
  \/ \E i \in Slots : SyncTableCreate(i)
  \/ Quiet /\ \E a \in CellArgs : ReceiveSetCellText(a)
  \/ \E i \in Slots : SyncSetCellText(i)
  \/ Quiet /\ \E a \in InsertArgs : ReceiveInsertRows(a)
  \/ \E i \in Slots : SyncInsertRows(i)
  \/ Quiet /\ \E a \in InsertArgs : ReceiveInsertColumns(a)
  \/ \E i \in Slots : SyncInsertColumns(i)
  \/ Quiet /\ \E a \in DeleteArgs : ReceiveDeleteRows(a)
  \/ \E i \in Slots : SyncDeleteRows(i)
  \/ Quiet /\ \E a \in DeleteArgs : ReceiveDeleteColumns(a)
  \/ \E i \in Slots : SyncDeleteColumns(i)
  \/ Quiet /\ \E a \in MergeArgs : ReceiveMergeCells(a)
  \/ \E i \in Slots : SyncMergeCells(i)
  \/ Quiet /\ \E a \in TableArgs : ReceiveTableApplyStyle(a)
  \/ \E i \in Slots : SyncTableApplyStyle(i)
  \/ \E i \in Slots : SyncRejected(i)
  \/ \E i \in Slots : SyncFailed(i)

SpecTable == Init /\ [][NextTable]_vars

\* ---- SpecText: search and replace, one event at a time, on every text of
\* up to MaxLen characters.
Texts == UNION {[1 .. n -> Char] : n \in 0 .. MaxLen}
Queries == {<<"a">>, <<"a", "b">>}
ReplaceArgs ==
  {[DefArgs EXCEPT !.target = ScSearchQuery, !.query = q, !.replaceWith = w, !.mode = m] :
     q \in Queries, w \in {<<>>, <<"b">>}, m \in {"none", "replaceFirst", "replaceAll"}}
    \cup {[DefArgs EXCEPT !.target = tg, !.replaceWith = <<"b">>] :
            tg \in {NoScope, ScDocument}}
    \cup {[DefArgs EXCEPT !.target = genId("rangeId", 0, 0), !.replaceWith = w, !.query = q,
                          !.mode = "replaceAll", !.matchPrefix = q # <<>>] :
            w \in {<<>>, <<"b">>}, q \in {<<>>, <<"a">>}}
    \cup {[DefArgs EXCEPT !.target = ScSearchQuery, !.query = <<"a">>, !.replaceWith = <<"b">>,
                          !.matchPrefix = pf, !.matchSuffix = ~pf] : pf \in BOOLEAN}
QueryArgs ==
  {[DefArgs EXCEPT !.query = q] : q \in Queries}
    \cup {[DefArgs EXCEPT !.query = <<"a">>, !.matchPrefix = pf, !.matchSuffix = ~pf] :
            pf \in BOOLEAN}
    \cup {[DefArgs EXCEPT !.query = <<"a">>, !.maxResults = 1],
          [DefArgs EXCEPT !.query = <<"a", "?">>, !.useRegex = TRUE]}

InitText ==
  /\ ranges = EmptyMap
  /\ tables = EmptyMap
  /\ now = 0
  /\ body \in Texts
  /\ selection = Range(0, 0)
  /\ reqs = [i \in Slots |-> Idle]
  /\ result = NoResult
  /\ hist = NoHist
  /\ issuedAt = EmptyMap
  /\ fmt = BaseFormat
  /\ wire = NoCall("normal")

NextText ==
  \/ Quiet /\ \E a \in QueryArgs : ReceiveSearch(a)
  \/ \E i \in Slots : SyncSearch(i)
  \/ Quiet /\ \E a \in ReplaceArgs : ReceiveReplace(a)
  \/ \E i \in Slots : SyncReplaceSearch(i)
  \/ \E i \in Slots : ReplaceItemsNotLoaded(i)
  \/ \E i \in Slots : SyncReplace(i)
  \/ \E i \in Slots : SyncReplaceFailed(i)
  \/ \E i \in Slots : SyncRejected(i)

SpecText == InitText /\ [][NextText]_vars

\* ---- SpecConcurrent: events arrive while earlier handlers are suspended.
TypeArgs == {[DefArgs EXCEPT !.text = <<"b">>, !.location = "end"]}
FormatArgs ==
  {[DefArgs EXCEPT !.namedStyle = TRUE, !.para = TRUE, !.char = TRUE, !.list = l,
                   !.precedence = pr] :
     l \in {"none", "bullet"}, pr \in {"none", "overridesThenStyle"}}

NextConcurrent ==
  \/ \E a \in TypeArgs : ReceiveInsertText(a)
  \/ \E i \in Slots : SyncInsertText(i)
  \/ \E a \in FormatArgs : ReceiveApplyStyle(a)
  \/ \E i \in Slots : SyncStyleNamed(i)
  \/ \E i \in Slots : SyncStyleList(i)
  \/ \E i \in Slots : SyncStyleOverrides(i)
  \/ \E i \in Slots : SyncApplyStyle(i)
  \/ \E i \in Slots : SyncRejected(i)

SpecConcurrent == Init /\ [][NextConcurrent]_vars

\* ---- SpecStyle: applyStyle on the document, one event at a time, with
\* every combination of named style, font size override, small caps, list,
\* reset and precedence.
Sizes == {"none", "12", "14"}
StyleMergeArgs ==
  {[DefArgs EXCEPT !.scope = ScDocument, !.para = TRUE, !.char = TRUE,
                   !.namedStyle = ns, !.fontSize = sz, !.smallCaps = sc, !.list = l,
                   !.reset = rs, !.precedence = pr] :
     ns \in BOOLEAN, sz \in Sizes, sc \in BOOLEAN, l \in {"none", "bullet"},
     rs \in BOOLEAN, pr \in {"none", "styleThenOverrides", "overridesThenStyle"}}

NextStyle ==
  \/ Quiet /\ \E a \in StyleMergeArgs : ReceiveApplyStyle(a)
  \/ \E i \in Slots : SyncStyleNamed(i)
  \/ \E i \in Slots : SyncStyleList(i)
  \/ \E i \in Slots : SyncStyleOverrides(i)
  \/ \E i \in Slots : SyncApplyStyle(i)
  \/ \E i \in Slots : SyncRejected(i)
  \/ \E i \in Slots : SyncFailed(i)

SpecStyle == Init /\ [][NextStyle]_vars

\* ---- SpecServer: the MCP server in either mode, its tools called with the
\* argument objects of the other specifications while clients come and go.
Modes == {"normal", "simple"}
ToolArgs(name) ==
  IF name = <<"insertText">> THEN InsertTextArgs
  ELSE IF name = <<"search">> THEN SearchArgs \cup QueryArgs
  ELSE IF name = <<"replace">> THEN ReplaceArgs
  ELSE IF name = <<"insertPicture">> THEN PictureArgs
  ELSE IF name = <<"table", "_", "create">> THEN TableCreateArgs \cup {GridArgs}
  ELSE IF name \in {<<"table", "_", "insertRows">>, <<"table", "_", "insertColumns">>}
  THEN TableArgs
  ELSE IF name \in {<<"table", "_", "deleteRows">>, <<"table", "_", "deleteColumns">>}
  THEN DeleteArgs
  ELSE IF name = <<"table", "_", "setCellText">> THEN CellArgs
  ELSE IF name = <<"table", "_", "mergeCells">> THEN MergeArgs
  ELSE IF name = <<"applyStyle">> THEN StyleArgs
  ELSE {DefArgs}
EditTaskArgs ==
  {[content |-> c, action |-> ac, target |-> t] :
     c \in {"", "Hello"}, ac \in {"insert", "replace", "append"},
     t \in {"cursor", "selection", "document"}}

InitServer ==
  /\ ranges = EmptyMap
  /\ tables = EmptyMap
  /\ now = 0
  /\ body = <<"a">>
  /\ selection = Range(0, 0)
  /\ reqs = [i \in Slots |-> Idle]
  /\ result = NoResult
  /\ hist = NoHist
  /\ issuedAt = EmptyMap
  /\ fmt = BaseFormat
  /\ \E m \in Modes : wire = NoCall(m)

NextServer ==
  \/ \E t \in Tools : \E a \in ToolArgs(t.name) : CallTool(t, a)
  \/ \E a \in PingArgs : CallPing(a)
  \/ \E a \in EditTaskArgs : CallEditTask(a)
  \/ \E c \in Clients : Connect(c)
  \/ \E c \in Clients : Disconnect(c)

SpecServer == InitServer /\ [][NextServer]_vars

\* ---- SpecInsert: insertText with and without text, addressed by the
\* selection, the document and the handles earlier calls returned, one event
\* at a time while the clock advances.
TextArgs ==
  {[DefArgs EXCEPT !.scope = sc, !.text = x, !.location = l, !.newParagraph = np] :
     sc \in {NoScope, ScSelection, ScDocument} \cup RangeIds, x \in {<<>>, <<"b">>},
     l \in {"none", "end"}, np \in BOOLEAN}

NextInsert ==
  \/ Tick
  \/ Quiet /\ \E a \in TextArgs : ReceiveInsertText(a)
  \/ \E i \in Slots : SyncInsertText(i)
  \/ \E i \in Slots : SyncRejected(i)

SpecInsert == Init /\ [][NextInsert]_vars

\* ---- SpecList: applyStyle with a list override on texts of one, two and
\* three paragraphs, addressed by the document and by a selection the user
\* moves.
ListTexts == {<<"a">>, <<"a", "p", "b">>, <<"a", "p", "p">>}
ListArgs ==
  {[DefArgs EXCEPT !.scope = sc, !.para = TRUE, !.list = l, !.precedence = pr] :
     sc \in {NoScope, ScDocument}, l \in {"none", "bullet", "number"},
     pr \in {"none", "overridesThenStyle"}}

InitList ==
  /\ ranges = EmptyMap
  /\ tables = EmptyMap
  /\ now = 0
  /\ body \in ListTexts
  /\ selection = Range(0, 0)
  /\ reqs = [i \in Slots |-> Idle]
  /\ result = NoResult
  /\ hist = NoHist
  /\ issuedAt = EmptyMap
  /\ fmt = BaseFormat
  /\ wire = NoCall("normal")

NextList ==
  \/ UserSelect
  \/ Quiet /\ \E a \in ListArgs : ReceiveApplyStyle(a)
  \/ \E i \in Slots : SyncStyleNamed(i)
  \/ \E i \in Slots : SyncStyleList(i)
  \/ \E i \in Slots : SyncStyleOverrides(i)
  \/ \E i \in Slots : SyncApplyStyle(i)
  \/ \E i \in Slots : SyncRejected(i)

SpecList == InitList /\ [][NextList]_vars

\* ---- SpecAck: the request/acknowledgement server.  EditTask broadcasts
\* 'ai-cmd' with a fresh editId and waits for 'edit-complete' or 'edit-error'
\* with that editId, for the timer, or for the shutdown of the process.  In
\* this specification `wire` is the state of that server: connectedClients,
\* pendingEdits, one record per promise EditTask returned, the commands
\* broadcast, and what the last step did.
\* editId = `edit_${Date.now()}_${Math.random()...}`
editId(t, r) == [p |-> "edit", t |-> t, r |-> r]
EditIds == {editId(t, r) : t \in 0 .. MaxTime, r \in Rand}
NoEdit == 0
NoLast == [kind |-> "none", editId |-> editId(0, 0), call |-> NoEdit]
AckServer(mode) ==
  [mode |-> mode, up |-> TRUE, clients |-> {}, calls |-> <<>>,
   pendingEdits |-> [id \in EditIds |-> NoEdit], sent |-> <<>>, last |-> NoLast]

\* connectedClients.size === 0
NoClientsNever(clients) == FALSE
NoClients(clients) == Cardinality(clients) = 0

\* pendingEdits.delete(editId)
DeleteEditKept(pe, id) == pe
DeleteEdit(pe, id) == [pe EXCEPT ![id] = NoEdit]

\* resolve or reject of the promise of call k is invoked
Settle(calls, k, by) ==
  [calls EXCEPT ![k] = [@ EXCEPT !.timer = FALSE, !.settled = @ + 1, !.by = by]]

AckStep(w) ==
  /\ wire.up
  /\ wire' = w
  /\ UNCHANGED <<ranges, tables, now, body, selection, reqs, result, hist, issuedAt, fmt>>

\* io.on('connection') and socket.on('disconnect')
ClientConnects(c) ==
  /\ c \notin wire.clients
  /\ AckStep([wire EXCEPT !.clients = @ \cup {c},
                          !.last = [NoLast EXCEPT !.kind = "connect"]])
ClientDisconnects(c) ==
  /\ c \in wire.clients
  /\ AckStep([wire EXCEPT !.clients = @ \ {c},
                          !.last = [NoLast EXCEPT !.kind = "disconnect"]])

\* tools/call of EditTask; r is the random suffix drawn
EditTask(r) ==
  /\ wire.mode = "ack"
  /\ IF NoClients(wire.clients)
     THEN AckStep([wire EXCEPT !.last = [NoLast EXCEPT !.kind = "error"]])
     ELSE /\ Len(wire.calls) < MaxCalls
          /\ LET id == editId(now, r)
                 k == Len(wire.calls) + 1
             IN AckStep([wire EXCEPT
                  !.calls = Append(@, [editId |-> id, at |-> now, timer |-> TRUE,
                                       settled |-> 0, by |-> "none"]),
                  !.pendingEdits = [@ EXCEPT ![id] = k],
                  !.sent = Append(@, [event |-> "ai-cmd", editId |-> id, to |-> wire.clients]),
                  !.last = [kind |-> "called", editId |-> id, call |-> k]])

\* tools/call of EditTask in the server that does not wait for a reply
EditTaskNotify ==
  /\ wire.mode = "notify"
  /\ IF NoClients(wire.clients)
     THEN AckStep([wire EXCEPT !.last = [NoLast EXCEPT !.kind = "error"]])
     ELSE /\ Len(wire.sent) < MaxCalls
          /\ AckStep([wire EXCEPT
               !.sent = Append(@, [event |-> "ai-cmd", editId |-> editId(0, 0),
                                   to |-> wire.clients]),
               !.last = [NoLast EXCEPT !.kind = "called"]])

\* socket.on('edit-complete') and socket.on('edit-error'): client c replies
\* about editId id
Acknowledged(c, kind, id, by) ==
  /\ wire.mode = "ack"
  /\ c \in wire.clients
  /\ LET k == wire.pendingEdits[id]
     IN IF k # NoEdit
        THEN AckStep([wire EXCEPT !.calls = Settle(@, k, by),
                                  !.pendingEdits = DeleteEdit(@, id),
                                  !.last = [kind |-> kind, editId |-> id, call |-> k]])
        ELSE AckStep([wire EXCEPT !.last = [kind |-> kind, editId |-> id, call |-> NoEdit]])
EditComplete(c, id, success) ==
  Acknowledged(c, "edit-complete", id, IF success THEN "resolved" ELSE "rejected")
EditError(c, id) == Acknowledged(c, "edit-error", id, "rejected")

\* the timer of call k fires
TimedOut(k) ==
  /\ wire.mode = "ack"
  /\ k \in 1 .. Len(wire.calls)
  /\ wire.calls[k].timer
  /\ now >= wire.calls[k].at + EditTimeout
  /\ AckStep([wire EXCEPT !.pendingEdits = DeleteEdit(@, wire.calls[k].editId),
                          !.calls = Settle(@, k, "timeout"),
                          !.last = [kind |-> "timeout", editId |-> wire.calls[k].editId,
                                    call |-> k]])

\* SIGINT: every entry of pendingEdits is rejected and the process exits
Shutdown ==
  /\ wire.mode = "ack"
  /\ AckStep([wire EXCEPT
       !.up = FALSE,
       !.calls = [k \in 1 .. Len(@) |->
                    IF wire.pendingEdits[@[k].editId] = k
                    THEN [@[k] EXCEPT !.timer = FALSE, !.settled = @ + 1, !.by = "shutdown"]
                    ELSE @[k]],
       !.pendingEdits = [id \in EditIds |-> NoEdit],
       !.last = [NoLast EXCEPT !.kind = "shutdown"]])

AckModes == {"ack", "notify"}
InitAck ==
  /\ ranges = EmptyMap
  /\ tables = EmptyMap
  /\ now = 0
  /\ body = <<"a">>
  /\ selection = Range(0, 0)
  /\ reqs = [i \in Slots |-> Idle]
  /\ result = NoResult
  /\ hist = NoHist
  /\ issuedAt = EmptyMap
  /\ fmt = BaseFormat
  /\ \E m \in AckModes : wire = AckServer(m)

NextAck ==
  \/ Tick
  \/ \E c \in Clients : ClientConnects(c)
  \/ \E c \in Clients : ClientDisconnects(c)
  \/ \E r \in Rand : EditTask(r)
  \/ EditTaskNotify
  \/ \E c \in Clients : \E id \in EditIds : \E success \in BOOLEAN : EditComplete(c, id, success)
  \/ \E c \in Clients : \E id \in EditIds : EditError(c, id)
  \/ \E k \in 1 .. MaxCalls : TimedOut(k)
  \/ Shutdown

SpecAck == InitAck /\ [][NextAck]_vars


\* ---- SpecStdin: the bytes of stdin, read by the MCP transport and, with
\* --debug, by the observer of main() as well.  The bytes are tokens: a
\* header 'Content-Length: n', the separator '\r\n\r\n', a newline, and a
\* JSON-RPC tools/call object (n counts tokens of the body).
Header(n) == [t |-> "header", n |-> n, name |-> NoTool, args |-> DefArgs]
Sep == [t |-> "sep", n |-> 0, name |-> NoTool, args |-> DefArgs]
Newline == [t |-> "nl", n |-> 0, name |-> NoTool, args |-> DefArgs]
ToolsCall(name, args) == [t |-> "json", n |-> 0, name |-> name, args |-> args]
LineEnds == {Sep, Newline}

\* the first index of a token of set S in sq, or 0
RECURSIVE IndexOf(_, _, _)
IndexOf(sq, S, i) ==
  IF i > Len(sq) THEN 0 ELSE IF sq[i] \in S THEN i ELSE IndexOf(sq, S, i + 1)

\* JSON.parse(text): one object, white space around it allowed
Trimmed(sq) == SelectSeq(sq, LAMBDA x : x \notin LineEnds)
JsonParse(sq) ==
  IF Len(Trimmed(sq)) = 1 /\ Trimmed(sq)[1].t = "json" THEN <<Trimmed(sq)[1]>> ELSE <<>>

\* /Content-Length:\s*(\d+)/i.exec(header): the number of the first header
\* line found, or -1
ContentLength(header) ==
  LET i == IndexOf(header, {x \in {header[j] : j \in 1 .. Len(header)} : x.t = "header"}, 1)
  IN IF i = 0 THEN -1 ELSE header[i].n

\* the observer's loop over its buffer: the argument objects it emits as
\* 'editTask', and what stays in the buffer
RECURSIVE Observe(_)
Observe(buf) ==
  LET headerEnd == IndexOf(buf, {Sep}, 1)
      header == SubSeq(buf, 1, headerEnd - 1)
      rest == SubSeq(buf, headerEnd + 1, Len(buf))
      len == ContentLength(header)
  IN IF headerEnd = 0 THEN [emits |-> <<>>, buf |-> buf]
     ELSE IF len < 0 THEN Observe(rest)
     ELSE IF Len(rest) < len THEN [emits |-> <<>>, buf |-> buf]
     ELSE LET obj == JsonParse(SubSeq(rest, 1, len))
              more == Observe(SubSeq(rest, len + 1, Len(rest)))
          IN [emits |-> (IF obj # <<>> /\ obj[1].name = EditTaskTool
                         THEN <<emitTool(EditTaskEvent, obj[1].args)>> ELSE <<>>)
                          \o more.emits,
              buf |-> more.buf]

\* StdioServerTransport: messages are lines; a line that is not one JSON
\* object is reported as an error and skipped.  The separator holds two
\* newlines.
RECURSIVE ReadLines(_)
ReadLines(buf) ==
  LET i == IndexOf(buf, LineEnds, 1)
  IN IF i = 0 THEN [calls |-> <<>>, buf |-> buf]
     ELSE LET line == SubSeq(buf, 1, i - 1)
              more == ReadLines(SubSeq(buf, i + 1, Len(buf)))
          IN [calls |-> (IF Len(line) = 1 THEN JsonParse(line) ELSE <<>>) \o more.calls,
              buf |-> more.buf]

\* the handlers registerTools registered, run for the calls the transport read
RECURSIVE Handled(_)
Handled(calls) ==
  IF calls = <<>> THEN <<>>
  ELSE (IF Head(calls).name = EditTaskTool
        THEN <<emitTool(EditTaskEvent, Head(calls).args)>> ELSE <<>>) \o Handled(Tail(calls))

Stdio(debug, framing) ==
  [mode |-> "stdio", debug |-> debug, framing |-> framing, written |-> 0,
   obuf |-> <<>>, tbuf |-> <<>>, calls |-> <<>>, sent |-> <<>>]

\* how the client writes one message: a line, a Content-Length frame, or a
\* Content-Length frame whose body ends with a newline
Framings == {"line", "frame", "frameLine"}
Written(framing, msg) ==
  IF framing = "line" THEN <<msg, Newline>>
  ELSE IF framing = "frame" THEN <<Header(1), Sep, msg>>
  ELSE <<Header(2), Sep, msg, Newline>>

\* the observer is installed with --debug only
Observed(debug, buf) == IF debug THEN Observe(buf) ELSE [emits |-> <<>>, buf |-> <<>>]

\* process.stdin 'data': one message arrives
StdinData(msg) ==
  /\ wire.written < MaxFrames
  /\ LET chunk == Written(wire.framing, msg)
         o == Observed(wire.debug, wire.obuf \o chunk)
         r == ReadLines(wire.tbuf \o chunk)
     IN wire' = [wire EXCEPT !.written = @ + 1, !.obuf = o.buf, !.tbuf = r.buf,
                             !.calls = r.calls,
                             !.sent = o.emits \o Handled(r.calls)]
  /\ UNCHANGED <<ranges, tables, now, body, selection, reqs, result, hist, issuedAt, fmt>>

StdinCalls ==
  {ToolsCall(EditTaskTool, a) : a \in {x \in EditTaskArgs : x.target = "cursor"}}
    \cup {ToolsCall(PingTool, DefArgs)}

InitStdin ==
  /\ ranges = EmptyMap
  /\ tables = EmptyMap
  /\ now = 0
  /\ body = <<"a">>
  /\ selection = Range(0, 0)
  /\ reqs = [i \in Slots |-> Idle]
  /\ result = NoResult
  /\ hist = NoHist
  /\ issuedAt = EmptyMap
  /\ fmt = BaseFormat
  /\ \E d \in BOOLEAN : \E f \in Framings : wire = Stdio(d, f)

NextStdin == \E msg \in StdinCalls : StdinData(msg)

SpecStdin == InitStdin /\ [][NextStdin]_vars


\* ---- SpecEdit: the add-in that executes editTask commands
\* (handleEditCommand) and replies 'edit-complete' or 'edit-error'.
\* Commands may arrive while earlier ones wait for context.sync().
\* socket.emit(event, { taskId, ... })
EditReply(event, taskId) ==
  [ok |-> event = "edit-complete", op |-> "editTask", code |-> "none", handles |-> <<>>,
   n |-> 0, diag |-> FALSE, event |-> event, taskId |-> taskId]

\* const { taskId, content, action = 'insert', target = 'selection' } = editCommand
EditCommand(taskId, content, action, target) ==
  [taskId |-> taskId, content |-> content,
   action |-> IF action = "none" THEN "insert" ELSE action,
   target |-> IF target = "none" THEN "selection" ELSE target]

\* the handler in slot i (or, with rq0 given, one that has not suspended)
\* emits msg and goes on as rq
EditEmits(i, rq0, msg, D, rq) ==
  /\ result' = msg
  /\ hist' = Ended(rq0, {})
  /\ reqs' = [D.rq EXCEPT ![i] = rq]
  /\ body' = D.body
  /\ selection' = D.sel
  /\ ranges' = D.rg
  /\ tables' = D.tb
  /\ fmt' = D.fmt
  /\ UNCHANGED <<now, issuedAt, wire>>

\* after emitComplete of the document replace branch: `return`
AfterEmitCompleteOn(rq) == [rq EXCEPT !.pc = "sync", !.tgt = NoObj]
AfterEmitComplete(rq) == Idle

\* socket.on('editTask'): handleEditCommand up to its first await
ReceiveEditTask(cmd) ==
  LET c == EditCommand(cmd.taskId, cmd.content, cmd.action, cmd.target)
      document == c.target = "document"
      range == IF document THEN Range(Len(body), Len(body)) ELSE selection
      text == IF c.action = "append" THEN <<"p">> \o c.content ELSE c.content
      location == IF c.action = "replace" THEN "replace" ELSE "after"
  IN \E i \in Slots :
       /\ FreeSlot(i)
       /\ IF document /\ c.action = "replace"
          THEN Suspend(i, NewReq("editTask", c, "replaced", BodyObj,
                                 <<Cmd("clear", BodyObj, <<>>, "none", 0, 0),
                                   Cmd("insertParagraph", BodyObj, c.content, "start", 0, 0)>>),
                       Current)
          ELSE IF c.action \in {"insert", "replace", "append"}
          THEN Suspend(i, NewReq("editTask", c, "sync", range,
                                 <<Cmd("insertText", range, text, location, 0, 0)>>), Current)
          \* throw new Error(`Unsupported action: ${action}`)
          ELSE EditEmits(i, NewReq("editTask", c, "idle", NoObj, <<>>),
                         EditReply("edit-error", c.taskId), Current, Idle)

\* the document replace branch: await context.sync(); emitComplete; return
SyncEditReplaced(i) ==
  /\ reqs[i].op = "editTask" /\ reqs[i].pc = "replaced"
  /\ \E D \in {Commit(i)} :
       /\ D.ok /\ Fits(D)
       /\ EditEmits(i, reqs[i], EditReply("edit-complete", reqs[i].a.taskId), D,
                    AfterEmitComplete(D.rq[i]))

\* await context.sync(); socket.emit('edit-complete', ...).  A handler with
\* no range (tgt) throws at range.insertText instead.
SyncEdit(i) ==
  /\ reqs[i].op = "editTask" /\ reqs[i].pc = "sync"
  /\ IF reqs[i].tgt = NoObj
     THEN EditEmits(i, reqs[i], EditReply("edit-error", reqs[i].a.taskId), Current, Idle)
     ELSE \E D \in {Commit(i)} :
            /\ D.ok /\ Fits(D)
            /\ EditEmits(i, reqs[i], EditReply("edit-complete", reqs[i].a.taskId), D, Idle)

\* context.sync() throws: catch (error) { socket.emit('edit-error', ...) }
EditSyncRejected(i) ==
  /\ reqs[i].op = "editTask" /\ reqs[i].pc \in {"replaced", "sync"} /\ reqs[i].tgt # NoObj
  /\ EditEmits(i, reqs[i], EditReply("edit-error", reqs[i].a.taskId), Current, Idle)

TaskIds == {"t1", "t2"}
EditCommands ==
  {[taskId |-> t, content |-> <<"b">>, action |-> ac, target |-> tg] :
     t \in TaskIds, ac \in {"none", "replace", "append", "delete"},
     tg \in {"none", "document"}}

NextEdit ==
  \/ \E cmd \in EditCommands : ReceiveEditTask(cmd)
  \/ \E i \in Slots : SyncEditReplaced(i)
  \/ \E i \in Slots : SyncEdit(i)
  \/ \E i \in Slots : EditSyncRejected(i)

SpecEdit == Init /\ [][NextEdit]_vars


\* ---- SpecDocument: server.js.  main() either connects the MCP transport
\* (stdin is not a terminal) or creates the web server, which attaches
\* Socket.IO to the WordMCPServer; edit_document is called through the MCP
\* transport.  In this specification `wire` is the WordMCPServer: whether
\* main has run, this.io, socketClients, and the command, the events and the
\* answer of the last tool call.
NoAnswer == [success |-> FALSE, clientCount |-> 0, commandId |-> 0, error |-> FALSE]
WordMCPServer(isTTY) ==
  [mode |-> "document", isTTY |-> isTTY, main |-> FALSE, started |-> FALSE, io |-> FALSE,
   socketClients |-> {}, command |-> NoTool, sent |-> <<>>, answer |-> NoAnswer]

DocumentStep(w) ==
  /\ wire' = w
  /\ UNCHANGED <<ranges, tables, now, body, selection, reqs, result, hist, issuedAt, fmt>>

\* main(): process.stdin.isTTY === false ? mcpServer.start() : createWebServer
main ==
  /\ ~wire.main
  /\ DocumentStep(IF ~wire.isTTY
                  THEN [wire EXCEPT !.main = TRUE, !.started = TRUE]
                  ELSE [wire EXCEPT !.main = TRUE, !.io = TRUE])

\* io.on('connection') and socket.on('disconnect') of createWebServer
SocketConnects(c) ==
  /\ wire.io /\ c \notin wire.socketClients
  /\ DocumentStep([wire EXCEPT !.socketClients = @ \cup {c}, !.command = NoTool,
                               !.sent = <<>>, !.answer = NoAnswer])
SocketDisconnects(c) ==
  /\ c \in wire.socketClients
  /\ DocumentStep([wire EXCEPT !.socketClients = @ \ {c}, !.command = NoTool,
                               !.sent = <<>>, !.answer = NoAnswer])

\* broadcastToClients(event, data): if (this.io) this.io.emit(event, data)
broadcastToClients(io, event, data) ==
  IF io THEN <<[event |-> event, payload |-> data]>> ELSE <<>>

\* `params.x || dflt`
Or(x, dflt) == IF x = "none" THEN dflt ELSE x

\* the handler of edit_document; r is the id drawn.  Without params the
\* first property read throws and the catch answers success: false.
edit_document(params, r) ==
  /\ wire.started
  /\ IF params = NoTool
     THEN DocumentStep([wire EXCEPT !.command = NoTool, !.sent = <<>>,
                                    !.answer = [NoAnswer EXCEPT !.error = TRUE]])
     ELSE LET command == [action |-> Or(params.action, "insert"),
                          content |-> params.content,
                          position |-> Or(params.position, "cursor"),
                          taskType |-> Or(params.taskType, "text"),
                          formatting |-> Or(params.formatting, "{}"), id |-> r]
          IN DocumentStep([wire EXCEPT
               !.command = command,
               !.sent = broadcastToClients(wire.io, AiCmdEvent, command),
               !.answer = [success |-> TRUE, clientCount |-> Cardinality(wire.socketClients),
                           commandId |-> r, error |-> FALSE]])

EditDocumentParams ==
  {[content |-> c, action |-> ac, position |-> ps, taskType |-> tt, formatting |-> f] :
     c \in {"", "Hello"}, ac \in {"none", "insert", "replace", "append", "delete"},
     ps \in {"none", "cursor", "start", "end", "selection"},
     tt \in {"none", "text", "table"}, f \in {"none", "bold"}} \cup {NoTool}

InitDocument ==
  /\ ranges = EmptyMap
  /\ tables = EmptyMap
  /\ now = 0
  /\ body = <<"a">>
  /\ selection = Range(0, 0)
  /\ reqs = [i \in Slots |-> Idle]
  /\ result = NoResult
  /\ hist = NoHist
  /\ issuedAt = EmptyMap
  /\ fmt = BaseFormat
  /\ \E isTTY \in BOOLEAN : wire = WordMCPServer(isTTY)

NextDocument ==
  \/ main
  \/ \E c \in Clients : SocketConnects(c)
  \/ \E c \in Clients : SocketDisconnects(c)
  \/ \E params \in EditDocumentParams : \E r \in Rand : edit_document(params, r)

SpecDocument == InitDocument /\ [][NextDocument]_vars

\* ------------------------------------------------------------------ properties
Registered == DOMAIN ranges \cup DOMAIN tables

\* C1: an operation addressed by a range handle or tableRef that does not
\* resolve answers { ok: false } with the error code E_NOT_FOUND.
C1_NotFound ==
  hist.unresolved => (~result.ok /\ result.code = "E_NOT_FOUND")

\* the same object before and after a step (a table keeps its number while
\* its cells change)
SameObject(o1, o2) == IF o1.k = "table" THEN o2.k = "table" /\ o1.s = o2.s ELSE o1 = o2
Keeps(m1, m2, rebound) ==
  \A h \in DOMAIN m1 : h \in DOMAIN m2 /\ (SameObject(m1[h], m2[h]) \/ h \in rebound)

\* C2 as claimed: a handle, once issued, stays in the registry and resolves
\* to the object it was registered for, whatever happens later.
C2_Stable == [][Keeps(ranges, ranges', {}) /\ Keeps(tables, tables', {})]_vars

\* C2 as the code has it: a handle, once issued, is never removed and resolves
\* to the object it was registered for until a later registration mints the
\* identical id, which rebinds it.
C2_StableUntilReissued ==
  [][Keeps(ranges, ranges', hist'.minted) /\ Keeps(tables, tables', hist'.minted)]_vars

\* a handle issued at an earlier clock value still resolves to the range it
\* was registered for after the selection moved and a later operation ran
C2_Witness ==
  /\ result.ok /\ result.op = "applyStyle"
  /\ \E h \in DOMAIN ranges :
       issuedAt[h] < now /\ ranges[h].k = "range" /\ ranges[h] # selection

\* C3 as claimed: no registration returns a handle that an earlier
\* registration returned.
C3_Unique == hist.reissued = {}

\* C3 as the code has it: a registration returns a handle issued before only
\* if that handle was issued at the clock value the registration reads (and
\* with the suffix it draws).
C3_SameClock ==
  [][\A h \in hist'.minted : h \in DOMAIN issuedAt => issuedAt[h] = now]_vars

\* a registration returned a handle that was already in the registry, and
\* another handle, issued at another clock value, is registered beside it
C3_Witness ==
  /\ hist.reissued # {}
  /\ \E h \in DOMAIN issuedAt : issuedAt[h] # now

SelectionOps == {"getSelection", "insertText", "insertPicture", "applyStyle"}
ResolvesSelection(i) ==
  /\ reqs[i].tgt = NoObj
  /\ reqs'[i].tgt # NoObj
  /\ reqs'[i].op \in SelectionOps
  /\ reqs'[i].a.scope.p \in {"none", "selection"}
C5_Fresh ==
  [][\A i \in Slots : ResolvesSelection(i) => reqs'[i].tgt = selection]_vars

\* a call resolved the selection to Range(0, 0) and registered it; the user
\* moved the selection; the next call has resolved it to the new range
C5_Witness ==
  \E i \in Slots :
    /\ reqs[i].op = "getSelection"
    /\ reqs[i].tgt = selection
    /\ selection # Range(0, 0)
    /\ \E h \in DOMAIN ranges : ranges[h] = Range(0, 0)

\* C6: while a handler that has committed a part of its operation still has
\* calls to commit, no other handler commits a change of the document.
Mutated(rq) == rq.op = "insertText" /\ rq.commits >= 1 /\ rq.a.text # <<>>
C6_Serialized ==
  \A i \in Slots :
    (reqs[i].commits >= 1 /\ reqs[i].pend # <<>>) => ~(result.ok /\ Mutated(hist.req))

\* C7: a successful result is emitted only when every call the handler
\* queued has been committed.
C7_Committed ==
  result.ok => hist.uncommitted = 0

\* C8: a handler in which an exception was raised answers
\* { ok: false, code: E_RUNTIME } with diagnostics.
C8_Caught ==
  hist.raised => (~result.ok /\ result.code = "E_RUNTIME" /\ result.diag)

\* C9: a deleteRows / deleteColumns that succeeds leaves the table that the
\* same request with its indexes in any other order leaves.
Perms(sq) ==
  LET n == Len(sq)
  IN {[k \in 1 .. n |-> sq[f[k]]] :
        f \in {g \in [1 .. n -> 1 .. n] : \A x, y \in 1 .. n : x # y => g[x] # g[y]}}
DeleteOps == {"table.deleteRows", "table.deleteColumns"}
CallOf(op) == IF op = "table.deleteRows" THEN "deleteRow" ELSE "deleteColumn"
Outcome(i, p) ==
  HostRun([Current EXCEPT !.rq[i].pend = DeleteCalls(CallOf(reqs[i].op), reqs[i].tgt, p)], i)
C9_AnyOrder ==
  [][\A i \in Slots :
       (reqs[i].op \in DeleteOps /\ reqs[i].tgt.k = "table" /\ result'.ok
        /\ result'.op = reqs[i].op)
         => \A p \in Perms(reqs[i].a.indexes) :
              Outcome(i, p).ok /\ Outcome(i, p).tb = tables']_vars

\* deleteRows with indexes [0, 1], given in ascending order, has emptied a
\* table of two rows
C9_Witness ==
  /\ result.ok /\ result.op = "table.deleteRows"
  /\ hist.req.a.indexes = <<0, 1>>
  /\ hist.req.tgt.k = "table" /\ hist.req.tgt.g = <<>>

\* C10: replace with target 'searchQuery' and the default mode, with a
\* replacement that does not contain the query, unless the host rejects a
\* commit: the result is ok, its count is the number of occurrences found,
\* and no occurrence is left in the scope (the whole body).
Occurrences(txt, q) == Len(Scan(txt, q, 0, Len(txt)))
C10_ReplaceAll ==
  (/\ result.op = "replace"
   /\ hist.req.a.target = ScSearchQuery
   /\ hist.req.a.mode = "none"
   /\ Occurrences(hist.req.a.replaceWith, hist.req.a.query) = 0
   /\ ~hist.host)
    => (/\ result.ok
        /\ result.n = Len(hist.req.hits)
        /\ Occurrences(body, hist.req.a.query) = 0)

\* txt with the occurrences of a query of length n at the positions found
\* replaced by w, the rightmost first
RECURSIVE AllReplaced(_, _, _, _)
AllReplaced(txt, found, n, w) ==
  IF found = <<>> THEN txt
  ELSE AllReplaced(Splice(txt, found[Len(found)].s, found[Len(found)].s + n, w),
                   SubSeq(found, 1, Len(found) - 1), n, w)

\* the step in which the handler of a replace with target 'searchQuery' in
\* slot i emits its result, the host having accepted its commits
ReplaceEnds(i) ==
  /\ reqs[i].op = "replace"
  /\ reqs[i].a.target = ScSearchQuery
  /\ result'.op = "replace"
  /\ ~hist'.host

\* C11: a replace with target 'searchQuery' and mode replaceFirst replaces
\* the earliest hit and no other (count 1, or 0 without a hit); with mode
\* replaceAll, or without a mode, it replaces every hit and counts them.
C11_Mode ==
  [][\A i \in Slots :
       ReplaceEnds(i) =>
         LET a == reqs[i].a
             found == Hits(Current, reqs[i].tgt, a.query, ReplaceOptions(a))
             wanted == IF a.mode = "replaceFirst" THEN SubSeq(found, 1, Min(1, Len(found)))
                       ELSE found
         IN /\ result'.ok
            /\ result'.n = Len(wanted)
            /\ body' = AllReplaced(body, wanted, Len(a.query), a.replaceWith)]_vars

\* C12: the hits a replace with target 'searchQuery' goes on to replace are
\* the hits a search with the same query, scope and options returns, in the
\* same order.
C12_SameHits ==
  [][\A i \in Slots :
       (reqs[i].op = "replace" /\ reqs[i].pc = "search" /\ reqs'[i].pc = "sync")
         => reqs'[i].hits = Hits(Current, reqs[i].tgt, reqs[i].a.query,
                                 SearchOptions(reqs[i].a))]_vars

\* C13: when the host fails one replacement of a replace with target
\* 'searchQuery' after executing others, the result is ok and its count is
\* the number of replacements that were executed.
C13_CountsSuccesses ==
  (result.op = "replace" /\ hist.partial)
    => (result.ok /\ result.n = hist.req.n - Len(hist.req.pend))

\* an applyStyle has answered ok
Styled == result.ok /\ result.op = "applyStyle"

C16_PartialStyle ==
  (result.op = "applyStyle" /\ hist.partial)
    => /\ result.ok /\ result.diag
       /\ (hist.req.a.fontSize # "none" /\ hist.req.a.precedence # "overridesThenStyle")
            => fmt.size = hist.req.a.fontSize

\* the query occurs nowhere in the text, under the options of the search
NoMatch(txt, q, opts) == \A i \in 0 .. Len(txt) : ~FindAt(txt, q, i, opts)

\* C17: a search whose query matches nothing in the document answers ok with
\* no results, unless the scope does not resolve or the host rejects the sync.
C17_EmptyOk ==
  (/\ result.op = "search"
   /\ NoMatch(body, hist.req.a.query, SearchOptions(hist.req.a))
   /\ ~hist.host /\ ~hist.unresolved)
    => (result.ok /\ result.handles = <<>>)

\* a search for 'ab' in a text of three characters without it answered ok
\* with no results
C17_Witness ==
  /\ result.ok /\ result.op = "search" /\ result.handles = <<>>
  /\ hist.req.a.query = <<"a", "b">>
  /\ Len(body) = MaxLen

\* C18: a successful search returns, and registers, at most maxResults
\* results, 100 when maxResults is not given.
C18_Truncated ==
  (result.ok /\ result.op = "search")
    => LET limit == IF hist.req.a.maxResults = 0 THEN 100 ELSE hist.req.a.maxResults
       IN Len(result.handles) <= limit /\ Len(hist.req.hits) <= limit

\* Does the whole of s match the regular expression q ?  (literals, and '?'
\* making the character before it optional)
RECURSIVE RegexMatches(_, _)
RegexMatches(q, s) ==
  IF q = <<>> THEN s = <<>>
  ELSE IF Len(q) >= 2 /\ q[2] = "?"
  THEN \/ RegexMatches(SubSeq(q, 3, Len(q)), s)
       \/ s # <<>> /\ s[1] = q[1] /\ RegexMatches(SubSeq(q, 3, Len(q)), Tail(s))
  ELSE s # <<>> /\ s[1] = q[1] /\ RegexMatches(Tail(q), Tail(s))

\* C19: a search with useRegex that answers ok returns only hits whose text
\* the regular expression matches.
C19_RegexSound ==
  (result.ok /\ result.op = "search" /\ hist.req.a.useRegex)
    => \A k \in 1 .. Len(hist.req.hits) :
         RegexMatches(hist.req.a.query,
                      SubSeq(body, hist.req.hits[k].s + 1, hist.req.hits[k].e))

\* C20: an operation whose scope is neither 'document', 'selection' nor a
\* handle reference answers { ok: false } with the error code E_INVALID_ARG.
C20_InvalidScope ==
  (result.op # "none" /\ hist.req.a.scope = ScOther)
    => (~result.ok /\ result.code = "E_INVALID_ARG")

\* C21: a request whose opcode is not one of the known operations is answered
\* { ok: false } with the error code E_INVALID_ARG.
C21_UnknownOp ==
  hist.req.op = UnknownOp =>
    (result.op # "none" /\ ~result.ok /\ result.code = "E_INVALID_ARG")

\* C22: a table.mergeCells that answers ok has merged the rectangle whose
\* corners are (startRow, startCol) and (startRow + rowSpan - 1,
\* startCol + colSpan - 1), and nothing else; with rowSpan = colSpan = 1 the
\* table keeps its shape and every cell its content.
InRect(a, r, c) ==
  /\ r >= a.startRow /\ r < a.startRow + a.rowSpan
  /\ c >= a.startCol /\ c < a.startCol + a.colSpan
C22_WitnessSingle ==
  /\ result.ok /\ result.op = "table.mergeCells"
  /\ hist.req.a.rowSpan = 1 /\ hist.req.a.colSpan = 1
  /\ \E id \in DOMAIN tables : tables[id].g = <<<<11, 12>>, <<21, 22>>>>

\* C23: a replace whose target is a scope or a handle, and that answers ok,
\* has replaced the text of the range the target resolved to by replaceWith,
\* once, whatever query, mode and options it was given; it answers
\* replaced = 1 and the text outside the range is as it was.
C23_Direct ==
  [][\A i \in Slots :
       (/\ reqs[i].op = "replace" /\ reqs[i].a.target # ScSearchQuery
        /\ reqs'[i] = Idle /\ result'.ok /\ result'.op = "replace")
       => LET ext == Extent(reqs[i].tgt, body)
          IN /\ result'.n = 1
             /\ body' = SubSeq(body, 1, ext.s) \o reqs[i].a.replaceWith
                           \o SubSeq(body, ext.e + 1, Len(body))]_vars
\* a replace addressed by a handle, carrying a query, has answered ok on a
\* range that is not the whole text
C23_Witness ==
  /\ result.ok /\ result.op = "replace" /\ result.n = 1
  /\ hist.req.a.target.p = "rangeId" /\ hist.req.a.query # <<>>
  /\ hist.req.a.replaceWith # <<>>
  /\ hist.req.tgt.k = "range"
  /\ Len(body) > hist.req.tgt.e - hist.req.tgt.s

\* C24: when the URL of an insertPicture cannot be fetched the operation
\* answers { ok: false } with the code E_RUNTIME, not E_INVALID_ARG; it has
\* queued and committed nothing, and the text, the tables and the handle
\* registry are as they were.
C24_FetchFailed ==
  [][\A i \in Slots :
       (reqs[i].pc = "fetch" /\ reqs'[i] = Idle /\ hist'.host)
       => /\ result'.op = "insertPicture" /\ ~result'.ok
          /\ result'.code = "E_RUNTIME"
          /\ reqs[i].pend = <<>> /\ reqs[i].commits = 0
          /\ body' = body /\ ranges' = ranges /\ tables' = tables]_vars
\* a fetch has failed while the registry held a handle
C24_Witness ==
  /\ ~result.ok /\ result.op = "insertPicture" /\ hist.host
  /\ hist.req.pc = "fetch" /\ hist.req.a.source = "url"
  /\ DOMAIN ranges # {}

\* C25: an insertPicture that asks for a wrapType other than inline answers
\* { ok: false } with the code E_UNSUPPORTED and inserts no picture.
C25_WrapUnsupported ==
  (result.op = "insertPicture" /\ hist.req.a.wrapType \notin {"none", "inline"})
    => (~result.ok /\ result.code = "E_UNSUPPORTED" /\ hist.req.commits = 0)

\* the operation a tool name stands for: table_create is table.create
OperationEvent(tool) == <<"word", ":">> \o ReplaceFirst(tool, "_", ".")
OneEvent(event) ==
  /\ wire.sent = <<[event |-> event, payload |-> wire.args]>>
  /\ \A c \in wire.clients : wire.got[c] = wire.sent

\* C26: in normal mode every tool call emits exactly one Socket.IO event,
\* named word:<operation> for that tool, whose payload is the argument
\* object of the call.
C26_EveryTool ==
  (wire.mode = "normal" /\ wire.tool # NoTool) => OneEvent(OperationEvent(wire.tool))
\* C26, as the code has it: every tool call other than ping emits exactly one
\* Socket.IO event, named word:<operation> for that tool, whose payload is
\* the argument object of the call; a call of ping emits no event.
C26_EventTools ==
  (wire.mode = "normal" /\ wire.tool # NoTool)
    => IF wire.tool = PingTool THEN wire.sent = <<>>
       ELSE OneEvent(OperationEvent(wire.tool))
\* table_create was called with a client connected, and word:table.create sent
C26_Witness ==
  /\ wire.mode = "normal" /\ wire.tool = <<"table", "_", "create">>
  /\ wire.clients # {}
  /\ Len(wire.sent) = 1 /\ wire.sent[1].event = <<"word", ":", "table", ".", "create">>
  /\ wire.sent[1].payload = GridArgs

C28_OneResult ==
  [][\A i \in Slots : reqs[i].pc = "final" => result' = NoResult]_vars

\* C29: an operation that ends with { ok: false } has registered no handle,
\* and the step that emits its result leaves the registry as it is (no handle
\* added, removed or rebound); an operation that fails because its scope,
\* target or tableRef does not resolve has committed nothing and leaves the
\* document as it is.
C29_FailureKeepsRegistry ==
  [][(result'.op # "none" /\ ~result'.ok)
       => /\ hist'.req.minted = {}
          /\ DOMAIN ranges' = DOMAIN ranges /\ DOMAIN tables' = DOMAIN tables
          /\ Keeps(ranges, ranges', {}) /\ Keeps(tables, tables', {})
          /\ hist'.unresolved
               => /\ hist'.req.commits = 0
                  /\ body' = body /\ tables' = tables /\ fmt' = fmt]_vars

\* C30: a deleteRows / deleteColumns that is given distinct indexes, each of
\* a row / column the table has, and that answers ok, has removed exactly the
\* rows / columns that were at those indexes; the others remain, in their
\* original order and with their cells.
Without(sq, S) ==
  LET kept == SelectSeq([k \in 1 .. Len(sq) |-> k], LAMBDA k : (k - 1) \notin S)
  IN [j \in 1 .. Len(kept) |-> sq[kept[j]]]
DistinctWithin(idx, n) ==
  /\ \A j, k \in 1 .. Len(idx) : j # k => idx[j] # idx[k]
  /\ \A k \in 1 .. Len(idx) : idx[k] >= 0 /\ idx[k] < n
Removed(op, t, g, h) ==
  IF t.k # "table" THEN 0
  ELSE IF op = "table.deleteRows" THEN NumRows(g) - NumRows(h)
  ELSE NumCols(g) - NumCols(h)
C31_DeletedCount ==
  [][\A i \in Slots :
       (/\ reqs[i].op \in DeleteOps /\ reqs'[i] = Idle
        /\ result'.ok /\ result'.op = reqs[i].op)
       => LET ref == reqs[i].a.tableRef
              g == IF ref \in DOMAIN tables THEN tables[ref].g ELSE <<>>
              h == IF ref \in DOMAIN tables' THEN tables'[ref].g ELSE <<>>
          IN result'.n = Removed(reqs[i].op, reqs[i].tgt, g, h)]_vars

\* C32: an insertRows / insertColumns that answers ok has added exactly
\* `count` rows / columns directly after the one at index `at`: those up to
\* `at` keep their index and content, the later ones shift by `count`; for
\* every at >= 0 and count >= 0.
Shifted(g, h, at, count) ==
  /\ Len(h) = Len(g) + count
  /\ \A k \in 1 .. Len(g) : IF k <= at + 1 THEN h[k] = g[k] ELSE h[k + count] = g[k]
C32_InsertsCount ==
  [][\A i \in Slots :
       (/\ reqs[i].op \in {"table.insertRows", "table.insertColumns"}
        /\ reqs'[i] = Idle /\ result'.ok /\ result'.op = reqs[i].op)
       => LET a == reqs[i].a
              g == tables[a.tableRef].g
              h == tables'[a.tableRef].g
          IN IF reqs[i].op = "table.insertRows"
             THEN Shifted(g, h, a.at, a.count)
             ELSE /\ Len(h) = Len(g)
                  /\ \A r \in 1 .. Len(g) : Shifted(g[r], h[r], a.at, a.count)]_vars

\* the insertText in slot i answers ok at this step
InsertAnswers(i) ==
  /\ reqs[i].op = "insertText" /\ reqs'[i] = Idle
  /\ result'.ok /\ result'.op = "insertText"
ByHandle(i) == reqs[i].a.scope.p = "rangeId"
ByDocumentOrSelection(i) == reqs[i].a.scope.p \in {"none", "selection", "document"}
ReturnsLength(i) == Len(result'.handles) = 1 /\ result'.n = Len(reqs[i].a.text)

\* C37: an insertText addressed by an existing handle returns that handle and
\* adds no registry entry; addressed by the document or the selection it
\* mints exactly one new handle; either way the length it returns is the
\* length of the text.
C37_MintsOne ==
  [][\A i \in Slots : InsertAnswers(i) =>
       /\ ReturnsLength(i)
       /\ ByHandle(i) => (result'.handles[1] = reqs[i].a.scope
                           /\ DOMAIN ranges' = DOMAIN ranges)
       /\ ByDocumentOrSelection(i)
            => (result'.handles[1] \notin DOMAIN ranges
                /\ DOMAIN ranges' = DOMAIN ranges \cup {result'.handles[1]})]_vars
\* C37, as the code has it: addressed by the document or the selection it
\* returns the id genId draws and registers the target under it, unless that
\* id is in the registry already: then no entry is added and the id keeps the
\* object it had.
C37_MintsUnlessRepeated ==
  [][\A i \in Slots : InsertAnswers(i) =>
       /\ ReturnsLength(i)
       /\ ByHandle(i) => (result'.handles[1] = reqs[i].a.scope
                           /\ DOMAIN ranges' = DOMAIN ranges)
       /\ ByDocumentOrSelection(i)
            => /\ DOMAIN ranges' = DOMAIN ranges \cup {result'.handles[1]}
               /\ result'.handles[1] \in DOMAIN ranges => hist'.minted = {}
               /\ result'.handles[1] \notin DOMAIN ranges
                    => hist'.minted = {result'.handles[1]}]_vars
\* text was inserted through a handle, which was returned, while another
\* handle was in the registry
C37_Witness ==
  /\ result.ok /\ result.op = "insertText" /\ result.n = 1
  /\ hist.req.a.scope.p = "rangeId" /\ result.handles = <<hist.req.a.scope>>
  /\ hist.minted = {}
  /\ Cardinality(DOMAIN ranges) = 2

\* the startNewList calls a request has queued
ListStarts(rq) == SelectSeq(rq.pend, LAMBDA c : c.c = "startNewList")
\* the paragraph marks inside a range
Marks(txt, r) == {k \in (Extent(r, txt).s + 1) .. Extent(r, txt).e : txt[k] = "p"}

\* C39: an applyStyle with a list override starts a list once on each
\* paragraph of the range (one call per paragraph, after the sync that loads
\* them), not once on the range; with list none it starts no list.
C39_PerParagraph ==
  [][\A i \in Slots :
       /\ (reqs[i].pc = "list" /\ reqs'[i].pc \in {"sync", "overrides"})
            => LET n == 1 + Cardinality(Marks(body', reqs'[i].tgt))
               IN /\ Len(ListStarts(reqs'[i])) = n
                  /\ \A k \in 1 .. n :
                       Cardinality({j \in 1 .. n : ListStarts(reqs'[i])[j].i = k}) = 1
       /\ reqs[i].pc # "list" => Len(ListStarts(reqs'[i])) <= Len(ListStarts(reqs[i]))
       /\ (reqs'[i].op = "applyStyle" /\ reqs'[i].a.list = "none")
            => (reqs'[i].pc # "list" /\ ListStarts(reqs'[i]) = <<>>)]_vars
\* three list starts are queued for a numbered list on a range of three
\* paragraphs
C39_Witness ==
  \E i \in Slots :
    /\ reqs[i].op = "applyStyle" /\ reqs[i].a.list = "number"
    /\ Len(ListStarts(reqs[i])) = 3
    /\ Cardinality(Marks(body, reqs[i].tgt)) = 2

\* the promise of call k in server state w: never settled twice; while the
\* server runs it is unsettled exactly as long as its timer is armed, and it
\* then owns the pendingEdits entry of its editId; once settled the entry is
\* gone; after shutdown it is settled
Settled(w, k) ==
  LET c == w.calls[k]
  IN /\ c.settled <= 1
     /\ w.up => (c.settled = 0 <=> c.timer)
     /\ (w.up /\ c.settled = 0) => w.pendingEdits[c.editId] = k
     /\ c.settled = 1 => (w.pendingEdits[c.editId] # k /\ ~c.timer)
     /\ ~w.up => c.settled = 1
Replies == {"edit-complete", "edit-error"}
\* a step leaves call k settled as above, and a reply carrying its editId
\* settles it if it was pending and leaves it as it was if not
SettlesOnce(k) ==
  /\ Settled(wire', k)
  /\ (wire' # wire /\ wire'.last.kind \in Replies /\ k <= Len(wire.calls)
        /\ wire.calls[k].editId = wire'.last.editId)
       => IF wire.calls[k].settled = 0
          THEN wire'.calls[k].settled = 1 /\ wire'.calls[k].by \in {"resolved", "rejected"}
          ELSE wire'.calls[k] = wire.calls[k]
Unshared(w, k) ==
  \A j \in 1 .. Len(w.calls) : j # k => w.calls[j].editId # w.calls[k].editId

C34_NoClients ==
  [][(wire.up /\ wire.clients = {} /\ wire' # wire) =>
       /\ wire'.last.kind # "called"
       /\ wire'.sent = wire.sent
       /\ Len(wire'.calls) = Len(wire.calls)
       /\ \A id \in EditIds :
            wire'.pendingEdits[id] \in {NoEdit, wire.pendingEdits[id]}]_vars

\* the call failed with no client connected, after an earlier call was
\* broadcast
C34_Witness ==
  /\ wire.last.kind = "error"
  /\ wire.clients = {}
  /\ Len(wire.sent) > 0

\* C35: each editTask tools/call the server reads from stdin causes exactly
\* one `editTask` event, with and without --debug.
C35_OneEventPerCall ==
  [][wire'.mode = "stdio" /\ wire'.written > wire.written
       => \A a \in EditTaskArgs :
            Cardinality({k \in 1 .. Len(wire'.calls) :
                           wire'.calls[k] = ToolsCall(EditTaskTool, a)}) > 0
              => Cardinality({k \in 1 .. Len(wire'.sent) :
                                wire'.sent[k] = emitTool(EditTaskEvent, a)})
                   = Cardinality({k \in 1 .. Len(wire'.calls) :
                                    wire'.calls[k] = ToolsCall(EditTaskTool, a)})]_vars

\* C36: every editTask command is answered by exactly one reply, emitted
\* when its handler ends: edit-complete if its edit was committed,
\* edit-error if not (an unsupported action included), with the command's
\* taskId; while a handler is in flight it emits nothing, and none stays in
\* flight after its reply.
C36_OneReply ==
  [][LET ended == {i \in Slots : reqs[i] # Idle /\ reqs'[i] = Idle}
     IN /\ result' = NoResult => ended = {}
        /\ result' # NoResult
             => /\ result'.event \in Replies
                /\ Cardinality(ended) <= 1
                /\ \A i \in ended :
                     /\ result'.taskId = reqs[i].a.taskId
                     /\ result'.event = "edit-complete"
                          => (reqs[i].pend # <<>> /\ body' = Commit(i).body)
                     /\ result'.event = "edit-error" => body' = body
                /\ ended = {}
                     => /\ reqs' = reqs
                        /\ result'.event = "edit-error"
                        /\ result'.taskId = hist'.req.a.taskId
                        /\ hist'.req.a.action \notin {"insert", "replace", "append"}]_vars

\* a document replace was committed and answered edit-complete while another
\* command was waiting
C36_Witness ==
  /\ result # NoResult
  /\ result.event = "edit-complete" /\ result.taskId = "t1"
  /\ hist.req.a.target = "document" /\ hist.req.a.action = "replace"
  /\ \E i \in Slots : reqs[i] # Idle /\ reqs[i].a.taskId = "t2"

\* C38: edit_document answers success: true only when the ai-cmd command was
\* broadcast through Socket.IO; with no Socket.IO server attached it does
\* not report success.
C38_SuccessMeansBroadcast ==
  (wire.mode = "document" /\ wire.answer.success)
    => (wire.io /\ \E k \in 1 .. Len(wire.sent) : wire.sent[k].event = AiCmdEvent)
====
